---- MODULE Spec2Model ----
(***************************************************************************)
(* The two LRU caches of the repository:                                   *)
(*   src/c++/LRUCache.cpp        hash map + doubly linked list (sentinels) *)
(*   src/typescript/lruCache.ts  one Map, kept in insertion order          *)
(* Both objects are constructed with the same capacity and receive the     *)
(* same sequence of get and put calls (Spec, SpecNegative; SpecWide with   *)
(* capacities up to 3 and four keys); SpecDemo runs the two files' own     *)
(* example programs.                                                       *)
(* Four more files of the repository, each under a specification of its    *)
(* own: Trie.js (SpecTrie), the AVL tree (SpecAvl), Union-Find (SpecUf),   *)
(* its subclass WeightedUnionFind (SpecWuf) and                            *)
(* DivisibleSumsDifference.cpp (SpecDsd).                                  *)
(* The C++ cache alone with display() and its destructor (SpecLife), the   *)
(* cache and a copy of the object, each used, assigned and destroyed       *)
(* (SpecCopy), and Queue.java (SpecQueue).                                 *)
(***************************************************************************)
EXTENDS Integers, Sequences, FiniteSets, TLC

\* ---------------------------------------------------------------- bounds
MaxCap == 2
MaxKey == 3

\* the calls followed on the two objects once the copy is made
MaxCopyCalls == 3
\* the largest capacity of the wider runs, which keep three keys resident
WideCap == 3

Keys == 1..MaxKey
Capacities == 0..MaxCap
\* the wider runs: capacity >= 1, and one key more than the cache holds
WideKeys == 1..(WideCap + 1)
WideCapacities == 1..WideCap

\* ------------------------------------------------------------- constants
\* nullptr (Node's constructor sets prev and next to it)
NULL == -1
\* what the C++ get returns on a miss
NotFound == -1
\* the values stored; -1 is among them because C++ values are any int
Values == {NotFound, 5}

VARIABLES
    capacity,   \* C++  LRUCache::capacity
    cache,      \* C++  unordered_map<int, Node*>: key -> node address
    head,       \* C++  dummy head
    tail,       \* C++  dummy tail
    heap,       \* C++  the Node objects, by address
    alloc,      \* C++  the addresses that are allocated and not deleted: Nodes, and
                \*      deleted Nodes whose memory a map entry was given
    tsCapacity, \* TS   LRUCache.capacity
    tsCache,    \* TS   the Map, as its <<key, value>> entries in insertion order
    call,       \* the call made last: [op, key, value]
    cppRet,     \* what the C++ call returned (0 for put, which returns nothing)
    tsRet,      \* what the TS call returned: <<v>>, or <<>> for undefined
    cppWas,     \* C++  before the last call: was its key resident, and the size
    tsWas,      \* TS   the same
    cppHist,    \* C++  the keys ever accessed, latest successful access first
    tsHist,     \* TS   the same
    lastPut,    \* per key, the value of its latest put: <<v>>, or <<>> if none
    cppPc,      \* C++  the number of calls main() has made
    tsPc,       \* TS   the number of calls the example usage has made
    trieNodes,  \* Trie the TrieNode objects, by their path from the root
    trieSize,   \* Trie Trie.size
    trieCall,   \* Trie the call made last: [op, word, stored (before the call)]
    trieRet,    \* Trie what it returned
    trieStored, \* Trie the words inserted and not deleted since
    avlRoot,    \* AVL  AVLTree.root: <<>> for null, or <<value, left, right, height>>
    avlSize,    \* AVL  AVLTree.size
    avlCall,    \* AVL  the call made last: [op, value]
    avlRet,     \* AVL  what it returned
    ufParent,   \* UF   UnionFind.parent
    ufRank,     \* UF   UnionFind.rank
    ufSize,     \* UF   UnionFind.size
    ufCount,    \* UF   UnionFind.componentCount
    ufWeight,   \* UF   weight[], the field that WeightedUnionFind adds (<<>> without it)
    ufCall,     \* UF   the call made last: [op, x, threw], joined and count before it
    ufRet,      \* UF   what it returned
    ufSets,     \* UF   per element, the elements united with it so far
    ufPc,       \* UF   calls of the network example made so far, -1: not that program
    dsdArr,     \* DSD  the argument arr
    dsdDivisor, \* DSD  the argument divisor
    dsdPc,      \* DSD  where divisibleSumsDifference is
    dsdI,       \* DSD  the number of elements the loop has taken
    dsdDivisibleSum,    \* DSD  the local divisibleSum
    dsdNonDivisibleSum, \* DSD  the local nonDivisibleSum
    dsdRet,     \* DSD  the value returned
    cppLife,    \* C++  "alive", "display" (display() is running), "destroying", "destroyed"
    current,    \* C++  the local current of display() or of the destructor
    visited,    \* C++  the nodes the running traversal has visited, in order
    copyState,  \* C++  the copy of the cache: "none", "live", "destroyed"
    copyCapacity,   \* C++  the copy's member capacity
    copyCache,  \* C++  the copy's member cache
    copyHead,   \* C++  the copy's member head
    copyTail,   \* C++  the copy's member tail
    copyRet,    \* C++  what the last call on the copy returned
    copyCalls,  \* C++  calls made on the two objects since the copy was made
    freedAs,    \* C++  what this build leaves in the memory of a deleted Node
    entryAt,    \* C++  the map entries that lie in the memory of a deleted Node:
                \*      address -> [of (the object), key]
    broken,     \* C++  the objects whose map has lost a chain pointer
    qCapacity,  \* Queue  capacity
    qArr,       \* Queue  arr, indexed from 0
    qFront,     \* Queue  front
    qRear,      \* Queue  rear
    qSize,      \* Queue  size
    qCall,      \* Queue  the call made last: [op, item]
    qRet,       \* Queue  what it returned
    qPending,   \* Queue  the items accepted and not yet dequeued, oldest first
    qPc         \* Queue  calls QueueMain.main has made, -1: not that program

cppVars == <<capacity, cache, head, tail, heap, alloc>>
tsVars == <<tsCapacity, tsCache>>
obsVars == <<call, cppRet, tsRet, cppWas, tsWas, cppHist, tsHist, lastPut>>
lruVars == <<cppVars, tsVars, obsVars>>
demoVars == <<cppPc, tsPc>>
trieVars == <<trieNodes, trieSize, trieCall, trieRet, trieStored>>
avlVars == <<avlRoot, avlSize, avlCall, avlRet>>
ufVars == <<ufParent, ufRank, ufSize, ufCount, ufWeight, ufCall, ufRet, ufSets, ufPc>>
dsdVars == <<dsdArr, dsdDivisor, dsdPc, dsdI, dsdDivisibleSum, dsdNonDivisibleSum, dsdRet>>
libVars == <<trieVars, avlVars, ufVars, dsdVars>>
lifeVars == <<cppLife, current, visited>>
copyObj == <<copyState, copyCapacity, copyHead, copyTail>>
copyVars == <<copyObj, copyCache, copyRet, copyCalls, freedAs, entryAt, broken>>
queueVars == <<qCapacity, qArr, qFront, qRear, qSize, qCall, qRet, qPending, qPc>>
extVars == <<lifeVars, copyVars, queueVars>>
vars == <<lruVars, demoVars, extVars, libVars, extVars>>

\* the addresses new may return: those of the sentinels, of a full cache and
\* of the node put links before it evicts; two objects that share a list
\* link one node more with each put, which a call may each be
NodeIds ==
    0..((IF capacity > MaxCap THEN capacity ELSE MaxCap) + 2
        + (IF copyState = "none" THEN 0 ELSE MaxCopyCalls))

\* ------------------------------------------- the other files, not in use
\* class TrieNode
NewTrieNode == [isEndOfWord |-> FALSE, wordCount |-> 0]

\* new Trie()
TrieNew ==
    /\ trieNodes = (<<>> :> NewTrieNode)
    /\ trieSize = 0
    /\ trieCall = [op |-> "new", word |-> <<>>, stored |-> FALSE]
    /\ trieRet = FALSE
    /\ trieStored = {}

\* new AVLTree()
AvlNew ==
    /\ avlRoot = <<>>
    /\ avlSize = 0
    /\ avlCall = [op |-> "new", value |-> 0]
    /\ avlRet = FALSE

\* new UnionFind(n): parent[i] = i, rank 0, size 1, n components
UfNew(n) ==
    /\ ufParent = [i \in 0..(n - 1) |-> i]
    /\ ufRank = [i \in 0..(n - 1) |-> 0]
    /\ ufSize = [i \in 0..(n - 1) |-> 1]
    /\ ufCount = n
    /\ ufCall = [op |-> "new", x |-> 0, threw |-> FALSE,
                 joined |-> FALSE, count |-> n]
    /\ ufRet = 0
    /\ ufSets = [i \in 0..(n - 1) |-> {i}]
    /\ ufWeight = <<>>

\* long long values: [hi, lo] stands for hi * LLBase + lo with 0 <= lo < LLBase,
\* so that sums of int values stay exact beyond the range of an int
LLBase == 65536

LLOf(n) == [hi |-> n \div LLBase, lo |-> n % LLBase]

LLAdd(a, b) ==
    [hi |-> a.hi + b.hi + ((a.lo + b.lo) \div LLBase),
     lo |-> (a.lo + b.lo) % LLBase]

LLNeg(a) ==
    IF a.lo = 0 THEN [hi |-> 0 - a.hi, lo |-> 0]
    ELSE [hi |-> 0 - a.hi - 1, lo |-> LLBase - a.lo]

LLSub(a, b) == LLAdd(a, LLNeg(b))

LLAbs(a) == IF a.hi < 0 THEN LLNeg(a) ELSE a

\* divisibleSumsDifference not called
DsdIdle ==
    /\ dsdArr = <<>>
    /\ dsdDivisor = 1
    /\ dsdPc = "idle"
    /\ dsdI = 0
    /\ dsdDivisibleSum = LLOf(0)
    /\ dsdNonDivisibleSum = LLOf(0)
    /\ dsdRet = LLOf(0)

LibIdle ==
    /\ TrieNew
    /\ AvlNew
    /\ UfNew(0)
    /\ ufPc = -1
    /\ DsdIdle

\* ------------------------------------------------------- sequence helpers
Without(s, k) == SelectSeq(s, LAMBDA x : x # k)

Restrict(s, S) == SelectSeq(s, LAMBDA x : x \in S)

Range(s) == {s[i] : i \in 1..Len(s)}

Reverse(s) == [i \in 1..Len(s) |-> s[Len(s) + 1 - i]]

Last(s) == s[Len(s)]

\* the access history after a successful access of k
Touch(hist, k) == <<k>> \o Without(hist, k)

\* ------------------------------------------------------------ C++: nodes
\* Node(int k, int v)
NewNode(k, v) == [key |-> k, value |-> v, prev |-> NULL, next |-> NULL]

\* heap holds the Nodes by address.  Its domain is alloc, the Nodes allocated
\* and not deleted, and, once a second LRUCache object holds the same
\* pointers, the memory of deleted Nodes as well: what a later read of it finds
\* is not defined by the language: it is what the build leaves there (freedAs).

\* a pointer value that is neither nullptr nor the address of memory that is
\* or was a Node
Wild == -2

\* an int found in memory that is no longer a Node
Garbage == 99

\* p can be dereferenced: *p is a Node or memory that was one; nullptr and a
\* wild pointer cannot (the program is killed)
Live(h, p) == p \in DOMAIN h

\* memory h at the addresses S only
RECURSIVE Only(_, _)
Only(h, S) ==
    IF S = {} THEN <<>>
    ELSE LET x == CHOOSE y \in S : TRUE
         IN  (x :> h[x]) @@ Only(h, S \ {x})

\* new Node(k, v) at address n
Store(h, n, obj) == (n :> obj) @@ h

\* what a build (compiler, allocator) leaves in the memory of a deleted
\* Node: the Node as it was, or the allocator's own data over key, value and
\* prev, or over all of it
FreedAs == {"kept", "overwritten", "scrambled"}

\* the memory of the deleted Node obj when it is read later
Freed(obj, as) ==
    IF as = "kept" THEN obj
    ELSE IF as = "overwritten"
    THEN [key |-> Garbage, value |-> Garbage, prev |-> Wild, next |-> obj.next]
    ELSE [key |-> Garbage, value |-> Garbage, prev |-> Wild, next |-> Wild]

\* delete n.  While there is one LRUCache object only, no pointer to n
\* remains and its memory is not followed.
FreeNode(h, n) ==
    IF copyState = "none"
    THEN Only(h, (DOMAIN h) \ {n})
    ELSE [h EXCEPT ![n] = Freed(h[n], freedAs)]

\* a variant of addNode that links the node before the tail sentinel
addNodeBeforeTail(h, node) ==
    LET h1 == [h EXCEPT ![node].next = tail]
        h2 == [h1 EXCEPT ![node].prev = h1[tail].prev]
        h3 == [h2 EXCEPT ![h2[tail].prev].next = node]
    IN  [h3 EXCEPT ![tail].prev = node]

\* head->next = node etc. on heap h
addNode(h, node) ==
    LET h1 == [h EXCEPT ![node].prev = head]
        h2 == [h1 EXCEPT ![node].next = h1[head].next]
        h3 == [h2 EXCEPT ![h2[head].next].prev = node]
    IN  [h3 EXCEPT ![head].next = node]

\* a variant of removeNode that leaves nextNode->prev as it is
removeNodeForward(h, node) ==
    LET prevNode == h[node].prev
        nextNode == h[node].next
    IN  [h EXCEPT ![prevNode].next = nextNode]

removeNode(h, node) ==
    LET prevNode == h[node].prev
        nextNode == h[node].next
        h1 == [h EXCEPT ![prevNode].next = nextNode]
    IN  [h1 EXCEPT ![nextNode].prev = prevNode]

\* a variant of moveToHead that leaves the node where it is
moveToHeadStay(h, node) == h

\* a variant of moveToHead that leaves the nodes linked as they are and
\* exchanges the entry of the node with that of the first node
moveToHeadSwap(h, node) ==
    LET first == h[head].next
    IN  [h EXCEPT ![first].key = h[node].key, ![first].value = h[node].value,
                  ![node].key = h[first].key, ![node].value = h[first].value]

moveToHead(h, node) == addNode(removeNode(h, node), node)

\* a variant of popTail that unlinks the node after the head sentinel
popTailAtHead(h) ==
    LET node == h[head].next
    IN  [node |-> node, heap |-> removeNode(h, node)]

\* the node popTail returns, and the heap it leaves
popTail(h) ==
    LET node == h[tail].prev
    IN  [node |-> node, heap |-> removeNode(h, node)]

\* the pointers that removeNode, addNode, moveToHead and popTail dereference
\* can be dereferenced
removeNodeOk(h, node) ==
    /\ Live(h, node)
    /\ Live(h, h[node].prev)
    /\ Live(h, h[node].next)

addNodeOk(h, node) ==
    /\ Live(h, node)
    /\ Live(h, head)
    /\ Live(h, h[head].next)

moveToHeadOk(h, node) ==
    /\ removeNodeOk(h, node)
    /\ addNodeOk(removeNode(h, node), node)

popTailOk(h) ==
    /\ Live(h, tail)
    /\ removeNodeOk(h, h[tail].prev)

\* variants of the capacity test: >= for >, and one entry too many
ExceedsOrEqual(size, cap) == IF cap < 0 THEN FALSE ELSE size >= cap

ExceedsByTwo(size, cap) == IF cap < 0 THEN FALSE ELSE size > cap + 1

\* cache.size() > capacity compares a size_t with an int: the int is converted
\* to size_t, so a negative capacity becomes a number no size exceeds
Exceeds(size, cap) == IF cap < 0 THEN FALSE ELSE size > cap

\* cache[key] = node
MapAssign(m, k, node) == [x \in (DOMAIN m) \cup {k} |-> IF x = k THEN node ELSE m[x]]

\* a variant of erase that leaves the entry in the map
MapEraseNothing(m, k) == m

\* cache.erase(key)
MapErase(m, k) == [x \in (DOMAIN m) \ {k} |-> m[x]]

\* the nodes from n to the tail sentinel, following next (as display() does)
RECURSIVE Chain(_, _, _)
Chain(h, n, fuel) ==
    IF n = tail \/ ~Live(h, n) \/ fuel = 0 THEN <<>>
    ELSE <<n>> \o Chain(h, h[n].next, fuel - 1)

CppNodes == Chain(heap, heap[head].next, Cardinality(NodeIds))

\* resident keys, most recently used first
CppOrder == [i \in 1..Len(CppNodes) |-> heap[CppNodes[i]].key]

CppKeys == DOMAIN cache

CppSize == Cardinality(DOMAIN cache)

CppValue(k) == heap[cache[k]].value

\* ------------------------------------- C++: memory that two objects share
\* Once a copy holds the same pointers, an object reads and writes Nodes that
\* the other has deleted.  The allocator gives such memory out again: to a new
\* Node, or to the entry that cache[key] = newNode adds to the map (a Node and
\* a map entry have one size).  The entry then lies where a pointer of the
\* list still points: the bytes of key and value hold the entry's chain
\* pointer, those of prev its key and those of next its Node*.

\* the int that the key of a map entry becomes when a pointer is written
\* over it through the Node* a
GarbageKey(a) == Garbage + 1 + a

\* the shared memory and the two maps
Mem ==
    [heap |-> heap, alloc |-> alloc, cache |-> cache, copy |-> copyCache,
     entryAt |-> entryAt, broken |-> broken]

\* the map of the object o in m, and m with that map replaced
MapOf(m, o) == IF o = "cache" THEN m.cache ELSE m.copy

WithMap(m, o, f) ==
    IF o = "cache" THEN [m EXCEPT !.cache = f] ELSE [m EXCEPT !.copy = f]

CapacityOf(o) == IF o = "cache" THEN capacity ELSE copyCapacity

\* the entry (k, node) of a map, read as a Node
EntryView(k, node) ==
    [key |-> Garbage, value |-> Garbage, prev |-> Wild, next |-> node]

\* the entry of key k carries the key g instead
MapRename(f, k, g) == MapAssign(MapErase(f, k), g, f[k])

\* the entry of o for key k is allocated: elsewhere (place is NULL), or in the
\* deleted memory at place
PlaceEntry(m, o, k, place) ==
    IF place = NULL THEN m
    ELSE [m EXCEPT !.heap = [m.heap EXCEPT ![place] = EntryView(k, MapOf(m, o)[k])],
                   !.alloc = @ \cup {place},
                   !.entryAt = (place :> [of |-> o, key |-> k]) @@ @]

\* the memory an allocation may be given besides fresh memory
Reusable(m) == (DOMAIN m.heap) \ m.alloc

\* the writes that turn m.heap into h1 reach the map entries that lie there:
\* a write of next replaces the entry's Node*, a write of prev its key, a
\* write of value a half of its chain pointer
RECURSIVE Written(_, _, _)
Written(m, h1, todo) ==
    IF todo = {} THEN [m EXCEPT !.heap = h1]
    ELSE LET a == CHOOSE x \in todo : TRUE
             e == m.entryAt[a]
             was == m.heap[a]
             now == h1[a]
             f0 == MapOf(m, e.of)
             f1 == IF now.next # was.next THEN MapAssign(f0, e.key, now.next) ELSE f0
             f2 == IF now.prev # was.prev THEN MapRename(f1, e.key, GarbageKey(a)) ELSE f1
             m1 == WithMap(m, e.of, f2)
             m2 == IF now.prev # was.prev
                   THEN [m1 EXCEPT !.entryAt[a].key = GarbageKey(a)]
                   ELSE m1
             m3 == IF now.value # was.value \/ now.key # was.key
                   THEN [m2 EXCEPT !.broken = @ \cup {e.of}]
                   ELSE m2
         IN  Written(m3, h1, todo \ {a})

Write(m, h1) == Written(m, h1, DOMAIN m.entryAt)

\* the memory of the map entry at a is given back
FreeEntry(m, a) ==
    [m EXCEPT !.heap = [m.heap EXCEPT ![a] = Freed(m.heap[a], freedAs)],
              !.alloc = @ \ {a},
              !.entryAt = Only(@, (DOMAIN @) \ {a})]

RECURSIVE FreeEntries(_, _)
FreeEntries(m, S) ==
    IF S = {} THEN m
    ELSE LET a == CHOOSE x \in S : TRUE
         IN  FreeEntries(FreeEntry(m, a), S \ {a})

\* the addresses of deleted Nodes at which entries of o lie
EntriesOf(m, o) == {a \in DOMAIN m.entryAt : m.entryAt[a].of = o}

\* cache.erase(k) on the map of o
Erase(m, o, k) ==
    FreeEntries(WithMap(m, o, MapErase(MapOf(m, o), k)),
                {a \in EntriesOf(m, o) : m.entryAt[a].key = k})

\* delete n.  Where a map entry lies at n, its memory is given back under the
\* map, which goes on pointing at it
DeleteNode(m, n) ==
    IF n \in DOMAIN m.entryAt
    THEN LET e == m.entryAt[n]
             m1 == IF freedAs = "kept" THEN m
                   ELSE WithMap(m, e.of, MapRename(MapOf(m, e.of), e.key, GarbageKey(n)))
         IN  [FreeEntry(m1, n) EXCEPT !.broken = @ \cup {e.of}]
    ELSE [m EXCEPT !.heap = FreeNode(m.heap, n), !.alloc = @ \ {n}]

\* the addresses new Node may return.  While deleted memory is followed (a
\* copy exists) these are the deleted Nodes and memory never used; no pointer
\* leads to the latter, and its least address stands for all of it
NewAddresses ==
    IF copyState = "none" THEN NodeIds \ alloc
    ELSE LET unused == NodeIds \ DOMAIN heap
         IN  Reusable(Mem) \cup {a \in unused : \A b \in unused : a <= b}

\* what a call does: it returns ret and leaves m, or the program is killed
\* in it (SIGSEGV, or abort on a double free)
KilledOutcome == [killed |-> TRUE, m |-> Mem, ret |-> 0]

Returns(m, ret) == [killed |-> FALSE, m |-> m, ret |-> ret]

\* a call that walks the map of o while a chain pointer of it is lost
WalkOutcomes(o) == IF o \in broken THEN {KilledOutcome} ELSE {}

\* get(key) on the object o
GetOutcomes(o, key) ==
    LET f == MapOf(Mem, o)
    IN  WalkOutcomes(o) \cup
        IF key \notin DOMAIN f THEN {Returns(Mem, NotFound)}
        ELSE LET node == f[key]
             IN  IF ~moveToHeadOk(heap, node) THEN {KilledOutcome}
                 ELSE LET h1 == moveToHead(heap, node)
                      IN  {Returns(Write(Mem, h1), h1[node].value)}

\* the rest of the else branch once addNode has run and left m: the test of
\* the size, popTail, erase, delete
PutEvictOutcomes(o, m) ==
    IF ~Exceeds(Cardinality(DOMAIN MapOf(m, o)), CapacityOf(o)) THEN {Returns(m, 0)}
    ELSE IF ~popTailOk(m.heap) THEN {KilledOutcome}
    ELSE UNION {UNION {(IF popped.node \in erased.alloc THEN {} ELSE {KilledOutcome})
                           \cup {Returns(DeleteNode(erased, popped.node), 0)} :
                          erased \in {Erase(Write(m, popped.heap), o, popped.heap[popped.node].key)}} :
                   popped \in {popTail(m.heap)}}

\* the else branch of put(key, value) on the object o: new gives newNode, the
\* entry of the map is allocated at place
PutNewOutcomes(o, key, value, newNode, place) ==
    UNION {IF ~addNodeOk(placed.heap, newNode) THEN {KilledOutcome}
           ELSE UNION {PutEvictOutcomes(o, added) :
                          added \in {Write(placed, addNode(placed.heap, newNode))}} :
              placed \in {PlaceEntry(WithMap([Mem EXCEPT
                                                 !.heap = Store(heap, newNode, NewNode(key, value)),
                                                 !.alloc = @ \cup {newNode}],
                                             o, MapAssign(MapOf(Mem, o), key, newNode)),
                                     o, key, place)}}

\* put(key, value) on the object o
PutOutcomes(o, key, value) ==
    LET f == MapOf(Mem, o)
    IN  WalkOutcomes(o) \cup
        IF key \in DOMAIN f
        THEN LET node == f[key]
                 h1 == [heap EXCEPT ![node].value = value]
             IN  IF ~moveToHeadOk(heap, node) THEN {KilledOutcome}
                 ELSE {Returns(Write(Mem, moveToHead(h1, node)), 0)}
        ELSE UNION {UNION {PutNewOutcomes(o, key, value, newNode, place) :
                              place \in {NULL} \cup (Reusable(Mem) \ {newNode})} :
                       newNode \in NewAddresses}

\* the call has left m
Becomes(m) ==
    /\ heap' = m.heap
    /\ alloc' = m.alloc
    /\ cache' = m.cache
    /\ copyCache' = m.copy
    /\ entryAt' = m.entryAt
    /\ broken' = m.broken

\* ------------------------------------------------------------- C++: calls
\* a variant of get that looks the key up with cache[key], which inserts a
\* null entry for a key the map does not hold
CppGetIndexing(key) ==
    IF key \notin DOMAIN cache
    THEN /\ cppRet' = NotFound
         /\ cache' = MapAssign(cache, key, NULL)
         /\ UNCHANGED <<heap, alloc>>
    ELSE LET node == cache[key]
             h1 == moveToHead(heap, node)
         IN  /\ heap' = h1
             /\ cppRet' = h1[node].value
             /\ UNCHANGED <<cache, alloc>>

\* a variant of get that answers a miss with 0
CppGetMissZero(key) ==
    IF key \notin DOMAIN cache
    THEN /\ cppRet' = 0
         /\ UNCHANGED <<cache, heap, alloc>>
    ELSE LET node == cache[key]
             h1 == moveToHead(heap, node)
         IN  /\ heap' = h1
             /\ cppRet' = h1[node].value
             /\ UNCHANGED <<cache, alloc>>

\* get(key) returns
CppGet(key) ==
    \E r \in GetOutcomes("cache", key) :
        /\ ~r.killed
        /\ cppRet' = r.ret
        /\ heap' = r.m.heap
        /\ cache' = r.m.cache
        /\ alloc' = r.m.alloc

\* a variant of put that makes room before it links the new node
CppPutEvictFirst(key, value) ==
    /\ cppRet' = 0
    /\ IF key \in DOMAIN cache
       THEN LET node == cache[key]
                h1 == [heap EXCEPT ![node].value = value]
            IN  /\ heap' = moveToHead(h1, node)
                /\ UNCHANGED <<cache, alloc>>
       ELSE \E newNode \in NodeIds \ alloc :
            IF Cardinality(DOMAIN cache) >= capacity
            THEN LET popped == popTail(heap)
                     lruNode == popped.node
                     c1 == MapErase(cache, heap[lruNode].key)
                     h1 == Store(popped.heap, newNode, NewNode(key, value))
                     h2 == addNode(h1, newNode)
                 IN  /\ cache' = MapAssign(c1, key, newNode)
                     /\ heap' = Only(h2, (DOMAIN h2) \ {lruNode})
                     /\ alloc' = (alloc \ {lruNode}) \cup {newNode}
            ELSE LET h1 == Store(heap, newNode, NewNode(key, value))
                 IN  /\ cache' = MapAssign(cache, key, newNode)
                     /\ heap' = addNode(h1, newNode)
                     /\ alloc' = alloc \cup {newNode}

\* put(key, value) returns
CppPut(key, value) ==
    \E r \in PutOutcomes("cache", key, value) :
        /\ ~r.killed
        /\ cppRet' = 0
        /\ heap' = r.m.heap
        /\ cache' = r.m.cache
        /\ alloc' = r.m.alloc

\* -------------------------------------------------------------- TS: Map
MapHas(m, k) == \E i \in 1..Len(m) : m[i][1] = k

\* Map.get(key): <<v>>, or <<>> for undefined
MapGet(m, k) ==
    IF MapHas(m, k)
    THEN <<m[CHOOSE i \in 1..Len(m) : m[i][1] = k][2]>>
    ELSE <<>>

MapDelete(m, k) == SelectSeq(m, LAMBDA e : e[1] # k)

\* Map.set(key, value): a present key keeps its place, a new one goes last
MapSet(m, k, v) ==
    IF MapHas(m, k)
    THEN [i \in 1..Len(m) |-> IF m[i][1] = k THEN <<k, v>> ELSE m[i]]
    ELSE Append(m, <<k, v>>)

\* cache.keys().next().value: <<k>>, or <<>> for undefined (no entry)
MapFirstKey(m) == IF Len(m) = 0 THEN <<>> ELSE <<m[1][1]>>

\* Map.delete of what MapFirstKey gave: undefined is no key of the Map
MapDeleteOpt(m, ko) == IF ko = <<>> THEN m ELSE MapDelete(m, ko[1])

\* resident keys, most recently used first (reverse insertion order)
TsOrder == Reverse([i \in 1..Len(tsCache) |-> tsCache[i][1]])

TsKeys == {tsCache[i][1] : i \in 1..Len(tsCache)}

TsSize == Len(tsCache)

\* -------------------------------------------------------------- TS: calls
\* a variant of get that returns the value and leaves the entry in its place
TsGetInPlace(key) ==
    IF ~MapHas(tsCache, key)
    THEN /\ tsRet' = <<>>
         /\ UNCHANGED tsCache
    ELSE /\ tsRet' = MapGet(tsCache, key)
         /\ UNCHANGED tsCache

\* a variant of get that deletes the entry and does not set it again
TsGetDropping(key) ==
    IF ~MapHas(tsCache, key)
    THEN /\ tsRet' = <<>>
         /\ UNCHANGED tsCache
    ELSE LET value == MapGet(tsCache, key)
         IN  /\ tsCache' = MapDelete(tsCache, key)
             /\ tsRet' = value

TsGet(key) ==
    IF ~MapHas(tsCache, key)
    THEN /\ tsRet' = <<>>
         /\ UNCHANGED tsCache
    ELSE LET value == MapGet(tsCache, key)
         IN  /\ tsCache' = MapSet(MapDelete(tsCache, key), key, value[1])
             /\ tsRet' = value

\* a variant of put that tests the size before it tests for the key
TsPutSizeFirst(key, value) ==
    /\ tsRet' = <<>>
    /\ LET m1 == IF Len(tsCache) >= tsCapacity
                 THEN MapDeleteOpt(tsCache, MapFirstKey(tsCache))
                 ELSE tsCache
           m2 == IF MapHas(m1, key) THEN MapDelete(m1, key) ELSE m1
       IN  tsCache' = MapSet(m2, key, value)

TsPut(key, value) ==
    /\ tsRet' = <<>>
    /\ LET m1 == IF MapHas(tsCache, key)
                 THEN MapDelete(tsCache, key)
                 ELSE IF Len(tsCache) >= tsCapacity
                      THEN MapDeleteOpt(tsCache, MapFirstKey(tsCache))
                      ELSE tsCache
       IN  tsCache' = MapSet(m1, key, value)

\* ------------------------------------------------------------ the system
\* LRUCache(int capacity): the two sentinels, linked to each other
CppNew(c) ==
    /\ capacity = c
    /\ head = 0
    /\ tail = 1
    /\ cache = <<>>
    /\ alloc = {0, 1}
    /\ heap = [n \in {0, 1} |->
                 IF n = 0 THEN [NewNode(0, 0) EXCEPT !.next = 1]
                 ELSE [NewNode(0, 0) EXCEPT !.prev = 0]]

\* constructor(capacity: number)
TsNew(c) ==
    /\ tsCapacity = c
    /\ tsCache = <<>>

\* no call made yet
ObsNew ==
    /\ call = [op |-> "new", key |-> 0, value |-> 0]
    /\ cppRet = 0
    /\ tsRet = <<>>
    /\ cppWas = [resident |-> FALSE, size |-> 0]
    /\ tsWas = [resident |-> FALSE, size |-> 0]
    /\ cppHist = <<>>
    /\ tsHist = <<>>
    /\ lastPut = [k \in Keys |-> <<>>]

\* the example programs have not started
DemoIdle ==
    /\ cppPc = 0
    /\ tsPc = 0

\* the C++ cache is in use: no traversal runs, the destructor has not run
LifeIdle ==
    /\ cppLife = "alive"
    /\ current = NULL
    /\ visited = <<>>

\* no copy of the C++ cache has been made
CopyIdle ==
    /\ copyState = "none"
    /\ copyCapacity = 0
    /\ copyCache = <<>>
    /\ copyHead = NULL
    /\ copyTail = NULL
    /\ copyRet = 0
    /\ copyCalls = 0
    /\ freedAs = "unread"
    /\ entryAt = <<>>
    /\ broken = {}

\* new Queue(c): arr holds c zeros, rear is c - 1
QueueNew(c) ==
    /\ qCapacity = c
    /\ qArr = [i \in 0..(c - 1) |-> 0]
    /\ qFront = 0
    /\ qSize = 0
    /\ qRear = c - 1
    /\ qCall = [op |-> "new", item |-> 0]
    /\ qRet = 0
    /\ qPending = <<>>

\* what the specifications of the other programs leave as constructed
ExtIdle ==
    /\ LifeIdle
    /\ CopyIdle
    /\ QueueNew(0)
    /\ qPc = -1

\* the two caches constructed and not in use
LruIdle ==
    /\ CppNew(0)
    /\ TsNew(0)
    /\ ObsNew
    /\ DemoIdle
    /\ ExtIdle

Init ==
    /\ \E c \in Capacities : CppNew(c) /\ TsNew(c)
    /\ ObsNew
    /\ DemoIdle
    /\ LibIdle
    /\ ExtIdle

Get(key) ==
    /\ CppGet(key)
    /\ TsGet(key)
    /\ call' = [op |-> "get", key |-> key, value |-> 0]
    /\ cppWas' = [resident |-> key \in CppKeys, size |-> CppSize]
    /\ tsWas' = [resident |-> key \in TsKeys, size |-> TsSize]
    /\ cppHist' = IF key \in CppKeys THEN Touch(cppHist, key) ELSE cppHist
    /\ tsHist' = IF key \in TsKeys THEN Touch(tsHist, key) ELSE tsHist
    /\ UNCHANGED <<capacity, head, tail, tsCapacity, lastPut>>
    /\ UNCHANGED <<demoVars, libVars, extVars>>

\* a variant of the put call in which the TypeScript cache counts its
\* capacity down with every key it admits
PutCountingDown(key, value) ==
    /\ CppPut(key, value)
    /\ TsPut(key, value)
    /\ tsCapacity' = IF key \in TsKeys THEN tsCapacity ELSE tsCapacity - 1
    /\ call' = [op |-> "put", key |-> key, value |-> value]
    /\ cppWas' = [resident |-> key \in CppKeys, size |-> CppSize]
    /\ tsWas' = [resident |-> key \in TsKeys, size |-> TsSize]
    /\ cppHist' = Touch(cppHist, key)
    /\ tsHist' = Touch(tsHist, key)
    /\ lastPut' = [lastPut EXCEPT ![key] = <<value>>]
    /\ UNCHANGED <<capacity, head, tail>>
    /\ UNCHANGED <<demoVars, libVars, extVars>>

Put(key, value) ==
    /\ CppPut(key, value)
    /\ TsPut(key, value)
    /\ call' = [op |-> "put", key |-> key, value |-> value]
    /\ cppWas' = [resident |-> key \in CppKeys, size |-> CppSize]
    /\ tsWas' = [resident |-> key \in TsKeys, size |-> TsSize]
    /\ cppHist' = Touch(cppHist, key)
    /\ tsHist' = Touch(tsHist, key)
    /\ lastPut' = [lastPut EXCEPT ![key] = <<value>>]
    /\ UNCHANGED <<capacity, head, tail, tsCapacity>>
    /\ UNCHANGED <<demoVars, libVars, extVars>>

Next ==
    \/ \E key \in Keys : Get(key)
    \/ \E key \in Keys, value \in Values : Put(key, value)

Spec == Init /\ [][Next]_vars

\* the same calls on caches of capacity 1..WideCap, with keys enough to fill
\* the largest and evict from it
InitWide ==
    /\ \E c \in WideCapacities : CppNew(c) /\ TsNew(c)
    /\ call = [op |-> "new", key |-> 0, value |-> 0]
    /\ cppRet = 0
    /\ tsRet = <<>>
    /\ cppWas = [resident |-> FALSE, size |-> 0]
    /\ tsWas = [resident |-> FALSE, size |-> 0]
    /\ cppHist = <<>>
    /\ tsHist = <<>>
    /\ lastPut = [k \in WideKeys |-> <<>>]
    /\ DemoIdle
    /\ LibIdle
    /\ ExtIdle

NextWide ==
    \/ \E key \in WideKeys : Get(key)
    \/ \E key \in WideKeys, value \in Values : Put(key, value)

SpecWide == InitWide /\ [][NextWide]_vars

\* ------------------------------------- construction, negative capacity
\* neither constructor tests its argument: the object exists and takes calls
NegativeCapacities == {-2, -1}

InitNegative ==
    /\ \E c \in NegativeCapacities : CppNew(c) /\ TsNew(c)
    /\ ObsNew
    /\ DemoIdle
    /\ LibIdle
    /\ ExtIdle

SpecNegative == InitNegative /\ [][Next]_vars

\* ------------------------------------- C++: the lifetime of the objects
\* The cache is used on its own (LifeGet, LifePut), displayed and destroyed;
\* a second object, copy, is made from it by the copy constructor that the
\* compiler generates (the class declares none) and is used, displayed,
\* assigned and destroyed in any order with the original.  A call that
\* dereferences nullptr or a wild pointer, or a delete that finds its Node
\* deleted already and stops the program, ends in cppLife = "crashed".

\* no traversal is under way and the program runs: a member function of an
\* object can be called
NoTraversal ==
    /\ cppLife \notin {"display", "destroying", "crashed"}
    /\ copyState \notin {"display", "destroying"}
    /\ copyState = "none" \/ copyCalls < MaxCopyCalls

\* the call is one more of those made since the copy was made
Called ==
    /\ copyCalls' = IF copyState = "none" THEN 0 ELSE copyCalls + 1
    /\ UNCHANGED freedAs

\* the program is killed in a call (SIGSEGV, or abort on a double free)
Killed ==
    /\ cppLife' = "crashed"
    /\ UNCHANGED <<current, visited>>
    /\ UNCHANGED <<lruVars, demoVars, libVars, copyVars, queueVars>>

\* what a delete of a Node that is deleted already may do
Outcomes == {"returns", "killed"}

\* cache.put(key, value) on the C++ object only
LifePut(key, value) ==
    /\ cppLife = "alive"
    /\ NoTraversal
    /\ \E r \in PutOutcomes("cache", key, value) :
          IF r.killed
          THEN Killed
          ELSE /\ cppRet' = r.ret
               /\ Becomes(r.m)
               /\ Called
               /\ UNCHANGED <<capacity, head, tail, tsVars>>
               /\ UNCHANGED <<call, tsRet, cppWas, tsWas, cppHist, tsHist, lastPut>>
               /\ UNCHANGED <<demoVars, libVars, lifeVars, copyObj, copyRet, queueVars>>

\* cache.get(key) on the C++ object only
LifeGet(key) ==
    /\ cppLife = "alive"
    /\ NoTraversal
    /\ \E r \in GetOutcomes("cache", key) :
          IF r.killed
          THEN Killed
          ELSE /\ cppRet' = r.ret
               /\ Becomes(r.m)
               /\ Called
               /\ UNCHANGED <<capacity, head, tail, tsVars>>
               /\ UNCHANGED <<call, tsRet, cppWas, tsWas, cppHist, tsHist, lastPut>>
               /\ UNCHANGED <<demoVars, libVars, lifeVars, copyObj, copyRet, queueVars>>

\* a variant of the step of a traversal that stays on the node
AdvanceStay(h, n) == n

\* current->next, the step of display() and of the destructor
Advance(h, n) == h[n].next

\* the steps a traversal is followed for; one that runs in a cycle of memory
\* that is no longer a list goes on for ever
TraversalCap == Cardinality(NodeIds) + 1

\* LRUCache copy(cache): the implicit copy constructor copies each member, the
\* pointers head and tail and the pointers in the map included
CopyConstruct ==
    /\ cppLife = "alive"
    /\ NoTraversal
    /\ copyState = "none"
    /\ copyState' = "live"
    /\ copyCapacity' = capacity
    /\ copyCache' = cache
    /\ copyHead' = head
    /\ copyTail' = tail
    /\ copyCalls' = 0
    /\ freedAs' \in FreedAs
    /\ UNCHANGED <<copyRet, entryAt, broken>>
    /\ UNCHANGED <<lruVars, demoVars, libVars, lifeVars, queueVars>>

\* the entries of the keys K of the map of o are allocated, each elsewhere or
\* in deleted memory: the memories that may result
RECURSIVE PlaceAll(_, _, _)
PlaceAll(m, o, K) ==
    IF K = {} THEN {m}
    ELSE LET k == CHOOSE x \in K : TRUE
         IN  UNION {PlaceAll(PlaceEntry(m, o, k, place), o, K \ {k}) :
                       place \in {NULL} \cup Reusable(m)}

\* to = from on the maps: the entries of to are given up and those of from
\* are copied into entries of to's own, kept or newly allocated
AssignOutcomes(to, from) ==
    LET m1 == FreeEntries(Mem, EntriesOf(Mem, to))
        m2 == WithMap(m1, to, MapOf(Mem, from))
        m3 == [m2 EXCEPT !.broken = @ \ {to}]
    IN  WalkOutcomes(to) \cup WalkOutcomes(from)
        \cup {Returns(m, 0) : m \in PlaceAll(m3, to, DOMAIN MapOf(m3, to))}

\* copy = cache: the implicit copy assignment replaces each member of copy
CopyAssign ==
    /\ cppLife = "alive"
    /\ NoTraversal
    /\ copyState = "live"
    /\ \E r \in AssignOutcomes("copy", "cache") :
          IF r.killed
          THEN Killed
          ELSE /\ copyCapacity' = capacity
               /\ copyHead' = head
               /\ copyTail' = tail
               /\ Becomes(r.m)
               /\ Called
               /\ UNCHANGED <<copyState, copyRet>>
               /\ UNCHANGED <<capacity, head, tail, tsVars, obsVars>>
               /\ UNCHANGED <<demoVars, libVars, lifeVars, queueVars>>

\* cache = copy: the implicit copy assignment replaces each member of cache
LifeAssign ==
    /\ cppLife = "alive"
    /\ NoTraversal
    /\ copyState = "live"
    /\ \E r \in AssignOutcomes("cache", "copy") :
          IF r.killed
          THEN Killed
          ELSE /\ capacity' = copyCapacity
               /\ head' = copyHead
               /\ tail' = copyTail
               /\ Becomes(r.m)
               /\ Called
               /\ UNCHANGED <<tsVars, obsVars>>
               /\ UNCHANGED <<demoVars, libVars, lifeVars, copyObj, copyRet, queueVars>>

\* copy.get(key); the copy's head and tail are those of the original
CopyGet(key) ==
    /\ copyState = "live"
    /\ NoTraversal
    /\ \E r \in GetOutcomes("copy", key) :
          IF r.killed
          THEN Killed
          ELSE /\ copyRet' = r.ret
               /\ Becomes(r.m)
               /\ Called
               /\ UNCHANGED <<capacity, head, tail, tsVars, obsVars>>
               /\ UNCHANGED <<demoVars, libVars, lifeVars, copyObj, queueVars>>

\* copy.put(key, value)
CopyPut(key, value) ==
    /\ copyState = "live"
    /\ NoTraversal
    /\ \E r \in PutOutcomes("copy", key, value) :
          IF r.killed
          THEN Killed
          ELSE /\ copyRet' = r.ret
               /\ Becomes(r.m)
               /\ Called
               /\ UNCHANGED <<capacity, head, tail, tsVars, obsVars>>
               /\ UNCHANGED <<demoVars, libVars, lifeVars, copyObj, queueVars>>

\* cache.display() is called: current = head->next
Display ==
    /\ cppLife = "alive"
    /\ NoTraversal
    /\ IF ~Live(heap, head)
       THEN Killed
       ELSE /\ cppLife' = "display"
            /\ current' = heap[head].next
            /\ visited' = <<>>
            /\ Called
            /\ UNCHANGED <<copyObj, copyCache, copyRet, entryAt, broken>>
            /\ UNCHANGED <<lruVars, demoVars, libVars, queueVars>>

\* copy.display() is called
CopyDisplay ==
    /\ copyState = "live"
    /\ NoTraversal
    /\ IF ~Live(heap, copyHead)
       THEN Killed
       ELSE /\ copyState' = "display"
            /\ current' = heap[copyHead].next
            /\ visited' = <<>>
            /\ Called
            /\ UNCHANGED <<copyCapacity, copyCache, copyHead, copyTail, copyRet>>
            /\ UNCHANGED <<entryAt, broken>>
            /\ UNCHANGED <<lruVars, demoVars, libVars, cppLife, queueVars>>

\* one test of display()'s loop: print the node and go on, or return
DisplayLoop ==
    /\ cppLife # "crashed"
    /\ cppLife = "display" \/ copyState = "display"
    /\ Len(visited) < TraversalCap
    /\ IF current # (IF cppLife = "display" THEN tail ELSE copyTail)
       THEN IF ~Live(heap, current)
            THEN Killed
            ELSE /\ visited' = Append(visited, current)
                 /\ current' = Advance(heap, current)
                 /\ UNCHANGED <<cppLife, copyVars>>
                 /\ UNCHANGED <<lruVars, demoVars, libVars, queueVars>>
       ELSE /\ cppLife' = IF cppLife = "display" THEN "alive" ELSE cppLife
            /\ copyState' = IF copyState = "display" THEN "live" ELSE copyState
            /\ current' = NULL
            /\ visited' = <<>>
            /\ UNCHANGED <<copyCapacity, copyCache, copyHead, copyTail, copyRet>>
            /\ UNCHANGED <<copyCalls, freedAs, entryAt, broken>>
            /\ UNCHANGED <<lruVars, demoVars, libVars, queueVars>>

\* the cache goes out of scope: the destructor starts, current = head
Destroy ==
    /\ cppLife = "alive"
    /\ NoTraversal
    /\ cppLife' = "destroying"
    /\ current' = head
    /\ visited' = <<>>
    /\ Called
    /\ UNCHANGED <<copyObj, copyCache, copyRet, entryAt, broken>>
    /\ UNCHANGED <<lruVars, demoVars, libVars, queueVars>>

\* the copy goes out of scope: its destructor starts
CopyDestroy ==
    /\ copyState = "live"
    /\ NoTraversal
    /\ copyState' = "destroying"
    /\ current' = copyHead
    /\ visited' = <<>>
    /\ Called
    /\ UNCHANGED <<copyCapacity, copyCache, copyHead, copyTail, copyRet>>
    /\ UNCHANGED <<entryAt, broken>>
    /\ UNCHANGED <<lruVars, demoVars, libVars, cppLife, queueVars>>

\* the object whose destructor runs
Destroyed == IF cppLife = "destroying" THEN "cache" ELSE "copy"

\* one test of the destructor's loop: delete the node and go on, or leave the
\* loop; then the map, a member, is destroyed and gives its entries back
DestroyLoop ==
    /\ cppLife # "crashed"
    /\ cppLife = "destroying" \/ copyState = "destroying"
    /\ Len(visited) < TraversalCap
    /\ IF current # NULL
       THEN IF ~Live(heap, current)
            THEN Killed
            ELSE \E outcome \in Outcomes :
                    IF outcome = "killed"
                    THEN /\ current \notin alloc
                         /\ Killed
                    ELSE /\ visited' = Append(visited, current)
                         /\ current' = Advance(heap, current)
                         /\ Becomes(DeleteNode(Mem, current))
                         /\ UNCHANGED <<cppLife, copyObj, copyRet, copyCalls, freedAs>>
                         /\ UNCHANGED <<capacity, head, tail, tsVars, obsVars>>
                         /\ UNCHANGED <<demoVars, libVars, queueVars>>
       ELSE \E outcome \in Outcomes :
               IF outcome = "killed"
               THEN /\ Destroyed \in broken
                    /\ Killed
               ELSE /\ cppLife' = IF cppLife = "destroying" THEN "destroyed" ELSE cppLife
                    /\ copyState' = IF copyState = "destroying" THEN "destroyed" ELSE copyState
                    /\ Becomes(FreeEntries(Mem, EntriesOf(Mem, Destroyed)))
                    /\ UNCHANGED <<current, visited>>
                    /\ UNCHANGED <<copyCapacity, copyHead, copyTail, copyRet, copyCalls, freedAs>>
                    /\ UNCHANGED <<capacity, head, tail, tsVars, obsVars>>
                    /\ UNCHANGED <<demoVars, libVars, queueVars>>

NextCopy ==
    \/ \E key \in Keys, value \in Values : LifePut(key, value)
    \/ \E key \in Keys : LifeGet(key)
    \/ Display
    \/ DisplayLoop
    \/ Destroy
    \/ DestroyLoop
    \/ CopyConstruct
    \/ CopyAssign
    \/ LifeAssign
    \/ \E key \in Keys : CopyGet(key)
    \/ \E key \in Keys, value \in Values : CopyPut(key, value)
    \/ CopyDisplay
    \/ CopyDestroy

SpecCopy == Init /\ [][NextCopy]_vars

NextLife ==
    \/ \E key \in Keys, value \in Values : LifePut(key, value)
    \/ \E key \in Keys : LifeGet(key)
    \/ Display
    \/ DisplayLoop
    \/ Destroy
    \/ DestroyLoop

\* a traversal that has started goes on: the code has one thread and no wait
SpecLife ==
    /\ Init
    /\ [][NextLife]_vars
    /\ WF_vars(DisplayLoop)
    /\ WF_vars(DestroyLoop)

\* =================================================================== claims

\* C1: after every call the number of resident keys is at most the capacity,
\* in the C++ cache (map entries, linked nodes) and in the TypeScript cache
\* (Map size), for every capacity >= 0.
C1_CapacityInvariant ==
    /\ CppSize <= capacity
    /\ Len(CppNodes) <= capacity
    /\ TsSize <= tsCapacity

\* C2: a put of a key that is not resident into a full cache (capacity >= 1)
\* removes exactly one entry, the resident key accessed longest ago (the tail
\* of the order), puts the new key at the most recently used position and
\* leaves the size at the capacity; in both caches.
C2_CppStep ==
    (call'.op = "put" /\ capacity >= 1 /\ call'.key \notin CppKeys /\ CppSize = capacity)
    => LET victim == Last(Restrict(cppHist, CppKeys))
       IN  /\ victim = Last(CppOrder)
           /\ CppKeys' = (CppKeys \ {victim}) \cup {call'.key}
           /\ CppOrder'[1] = call'.key
           /\ CppSize' = capacity
           /\ Len(CppOrder') = capacity

C2_TsStep ==
    (call'.op = "put" /\ tsCapacity >= 1 /\ call'.key \notin TsKeys /\ TsSize = tsCapacity)
    => LET victim == Last(Restrict(tsHist, TsKeys))
       IN  /\ victim = Last(TsOrder)
           /\ TsKeys' = (TsKeys \ {victim}) \cup {call'.key}
           /\ TsOrder'[1] = call'.key
           /\ TsSize' = tsCapacity

C2_EvictsLeastRecentlyUsed == [][C2_CppStep /\ C2_TsStep]_vars

C2_Witness ==
    /\ call.op = "put"
    /\ capacity >= 2
    /\ ~cppWas.resident /\ cppWas.size = capacity
    /\ ~tsWas.resident /\ tsWas.size = tsCapacity
    /\ CppSize = capacity /\ TsSize = tsCapacity
    /\ CppOrder[1] = call.key /\ TsOrder[1] = call.key

\* C3: get of a resident key returns the value of the latest put of that key
\* and moves the key to the most recently used position (C++: its node becomes
\* head->next; TypeScript: its entry becomes the last of the Map).
C3_CppStep ==
    (call'.op = "get" /\ call'.key \in CppKeys)
    => /\ <<cppRet'>> = lastPut[call'.key]
       /\ heap'[head'].next = cache[call'.key]
       /\ CppOrder'[1] = call'.key

C3_TsStep ==
    (call'.op = "get" /\ call'.key \in TsKeys)
    => /\ tsRet' = lastPut[call'.key]
       /\ tsRet' # <<>>
       /\ tsCache'[Len(tsCache')][1] = call'.key

C3_GetHit == [][C3_CppStep /\ C3_TsStep]_vars

C3_Witness ==
    /\ call.op = "get"
    /\ cppWas.resident /\ tsWas.resident
    /\ cppWas.size >= 2
    /\ <<cppRet>> = lastPut[call.key] /\ tsRet = lastPut[call.key]
    /\ CppOrder[1] = call.key /\ TsOrder[1] = call.key
    /\ Len(cppHist) > CppSize

\* C4: a put of a resident key overwrites its value, moves it to the most
\* recently used position, evicts nothing and leaves the size unchanged, also
\* in a full cache; a get of that key right after it returns the new value.
C4_CppStep ==
    /\ (call'.op = "put" /\ call'.key \in CppKeys)
       => /\ CppKeys' = CppKeys
          /\ CppSize' = CppSize
          /\ Len(CppOrder') = Len(CppOrder)
          /\ CppOrder'[1] = call'.key
          /\ heap'[cache'[call'.key]].value = call'.value
    /\ (call.op = "put" /\ cppWas.resident /\ call'.op = "get" /\ call'.key = call.key)
       => cppRet' = call.value

C4_TsStep ==
    /\ (call'.op = "put" /\ call'.key \in TsKeys)
       => /\ TsKeys' = TsKeys
          /\ TsSize' = TsSize
          /\ TsOrder'[1] = call'.key
          /\ MapGet(tsCache', call'.key) = <<call'.value>>
    /\ (call.op = "put" /\ tsWas.resident /\ call'.op = "get" /\ call'.key = call.key)
       => tsRet' = <<call.value>>

C4_UpdateNoEvict == [][C4_CppStep /\ C4_TsStep]_vars

C4_Witness ==
    /\ call.op = "put"
    /\ capacity >= 2
    /\ cppWas.resident /\ cppWas.size = capacity
    /\ tsWas.resident /\ tsWas.size = tsCapacity
    /\ CppSize = capacity /\ TsSize = tsCapacity
    /\ CppValue(call.key) = call.value

\* C5: a put of a key that is not resident into a cache below its capacity
\* inserts it at the most recently used position, raises the size by exactly
\* one and evicts no entry.
C5_CppStep ==
    (call'.op = "put" /\ call'.key \notin CppKeys /\ CppSize < capacity)
    => /\ CppKeys' = CppKeys \cup {call'.key}
       /\ CppSize' = CppSize + 1
       /\ Len(CppOrder') = Len(CppOrder) + 1
       /\ CppOrder'[1] = call'.key

C5_TsStep ==
    (call'.op = "put" /\ call'.key \notin TsKeys /\ TsSize < tsCapacity)
    => /\ TsKeys' = TsKeys \cup {call'.key}
       /\ TsSize' = TsSize + 1
       /\ TsOrder'[1] = call'.key

C5_InsertBelowCapacity == [][C5_CppStep /\ C5_TsStep]_vars

C5_Witness ==
    /\ call.op = "put"
    /\ ~cppWas.resident /\ cppWas.size = 1 /\ cppWas.size < capacity
    /\ ~tsWas.resident /\ tsWas.size = 1 /\ tsWas.size < tsCapacity
    /\ CppSize = 2 /\ TsSize = 2

\* C6: get of a key that is not resident (never inserted, or evicted) returns
\* the not-found result (-1, undefined) and changes nothing of the cache: keys,
\* values, order, and the C++ hash map gains no entry.
C6_CppStep ==
    (call'.op = "get" /\ call'.key \notin CppKeys)
    => /\ cppRet' = NotFound
       /\ cppVars' = cppVars

C6_TsStep ==
    (call'.op = "get" /\ call'.key \notin TsKeys)
    => /\ tsRet' = <<>>
       /\ tsVars' = tsVars

C6_GetMiss == [][C6_CppStep /\ C6_TsStep]_vars

\* a miss on an evicted key, in a cache that holds other keys
C6_Witness ==
    /\ call.op = "get"
    /\ ~cppWas.resident /\ ~tsWas.resident
    /\ lastPut[call.key] # <<>>
    /\ CppSize >= 2 /\ TsSize >= 2
    /\ cppRet = NotFound /\ tsRet = <<>>

\* C7: for capacity >= 1 the resident keys, read from most to least recently
\* used, are ordered by the time of their latest successful access (a put, or
\* a get that hit), latest first; the key accessed last is at the head.
C7_OrderIsAccessHistory ==
    /\ capacity >= 1
       => /\ CppOrder = Restrict(cppHist, CppKeys)
          /\ cppHist # <<>> => CppOrder # <<>> /\ CppOrder[1] = cppHist[1]
    /\ tsCapacity >= 1
       => /\ TsOrder = Restrict(tsHist, TsKeys)
          /\ tsHist # <<>> => TsOrder # <<>> /\ TsOrder[1] = tsHist[1]

\* a get promoted the older of two resident keys after an eviction
C7_Witness ==
    /\ call.op = "get"
    /\ cppWas.resident /\ tsWas.resident
    /\ Len(CppOrder) = 2 /\ Len(TsOrder) = 2
    /\ Len(cppHist) = 3
    /\ cppHist[3] \notin CppKeys
    /\ cppWas.size = 2

\* C8: in the C++ cache the keys of the hash map are the keys of the nodes
\* linked between the sentinels, each key is in exactly one linked node, and
\* the map entry of key k points at the node whose key field is k.
C8_IndexMatchesOrder ==
    /\ CppKeys = Range(CppOrder)
    /\ Len(CppOrder) = Cardinality(CppKeys)
    /\ \A k \in CppKeys :
          /\ cache[k] \in Range(CppNodes)
          /\ cache[k] \in alloc
          /\ heap[cache[k]].key = k

\* after an eviction from a full cache of the largest capacity
C8_Witness ==
    /\ call.op = "put"
    /\ ~cppWas.resident
    /\ cppWas.size = capacity
    /\ capacity = MaxCap
    /\ Len(cppHist) > CppSize
    /\ CppSize = capacity

\* C9: a C++ cache of capacity 0 holds no entry after any call (map empty,
\* head->next == tail) and every get returns -1.
C9_CppZeroCapacity ==
    capacity = 0
    => /\ DOMAIN cache = {}
       /\ heap[head].next = tail
       /\ call.op = "get" => cppRet = NotFound

\* get(k) right after put(k, v) with capacity 0
C9_Witness ==
    /\ capacity = 0
    /\ call.op = "get"
    /\ cppHist # <<>>
    /\ cppHist[1] = call.key
    /\ cppRet = NotFound

\* C10: a TypeScript cache of capacity 0 has an empty Map after every put and
\* every get returns undefined, also get(k) right after put(k, v).
C10_TsZeroCapacity ==
    tsCapacity = 0
    => /\ call.op = "put" => tsCache = <<>>
       /\ call.op = "get" => tsRet = <<>>

\* ------------------------------------------------ the example programs
\* LRUCache cache(2) and the calls of main(), in order
DemoCppCapacity == 2

CppDemo ==
    << [op |-> "put", key |-> 1, value |-> 1],
       [op |-> "put", key |-> 2, value |-> 2],
       [op |-> "get", key |-> 1, value |-> 0],
       [op |-> "put", key |-> 3, value |-> 3],
       [op |-> "get", key |-> 2, value |-> 0],
       [op |-> "put", key |-> 4, value |-> 4],
       [op |-> "get", key |-> 1, value |-> 0],
       [op |-> "get", key |-> 3, value |-> 0],
       [op |-> "get", key |-> 4, value |-> 0] >>

\* new LRUCache<string, number>(3) and the calls of the example usage
DemoTsCapacity == 3

TsDemo ==
    << [op |-> "put", key |-> "a", value |-> 1],
       [op |-> "put", key |-> "b", value |-> 2],
       [op |-> "put", key |-> "c", value |-> 3],
       [op |-> "get", key |-> "a", value |-> 0],
       [op |-> "put", key |-> "d", value |-> 4],
       [op |-> "get", key |-> "b", value |-> 0],
       [op |-> "get", key |-> "c", value |-> 0] >>

InitDemo ==
    /\ CppNew(DemoCppCapacity)
    /\ TsNew(DemoTsCapacity)
    /\ ObsNew
    /\ DemoIdle
    /\ LibIdle
    /\ ExtIdle

\* the next call of main()
CppMain ==
    /\ cppPc < Len(CppDemo)
    /\ LET c == CppDemo[cppPc + 1]
       IN  IF c.op = "put" THEN CppPut(c.key, c.value) ELSE CppGet(c.key)
    /\ cppPc' = cppPc + 1
    /\ UNCHANGED <<capacity, head, tail, tsVars, tsRet, tsPc>>
    /\ UNCHANGED <<call, cppWas, tsWas, cppHist, tsHist, lastPut>>
    /\ UNCHANGED <<libVars, extVars>>

\* the next call of the TypeScript example usage
TsExample ==
    /\ tsPc < Len(TsDemo)
    /\ LET c == TsDemo[tsPc + 1]
       IN  IF c.op = "put" THEN TsPut(c.key, c.value) ELSE TsGet(c.key)
    /\ tsPc' = tsPc + 1
    /\ UNCHANGED <<tsCapacity, cppVars, cppRet, cppPc>>
    /\ UNCHANGED <<call, cppWas, tsWas, cppHist, tsHist, lastPut>>
    /\ UNCHANGED <<libVars, extVars>>

\* main() returns: cache goes out of scope and its destructor runs
CppMainReturn ==
    /\ cppPc = Len(CppDemo)
    /\ Destroy

NextDemo == CppMain \/ TsExample \/ CppMainReturn \/ DestroyLoop

SpecDemo == InitDemo /\ [][NextDemo]_vars

\* C11: a construction with a negative capacity fails, so that no cache with
\* capacity < 0 ever serves a put or a get (C++ and TypeScript).
C11_NegativeCapacityRejected ==
    call.op # "new" => (capacity >= 0 /\ tsCapacity >= 0)

\* C12: with capacity >= 0 every get and put can be made and dereferences
\* only live nodes; the popTail of a put always finds a node that is not a
\* sentinel, and the sentinels stay allocated, linked as the two ends of the
\* list, and out of the hash map.
C12_SentinelsIntact ==
    /\ head \in alloc /\ tail \in alloc /\ head # tail
    /\ heap[head].prev = NULL /\ heap[tail].next = NULL
    /\ \A k \in CppKeys : cache[k] \in alloc \ {head, tail}
    /\ heap[IF CppNodes = <<>> THEN head ELSE Last(CppNodes)].next = tail

C12_PointersLive ==
    /\ heap[head].next \in alloc
    /\ heap[tail].prev \in alloc
    /\ \A n \in Range(CppNodes) : heap[n].prev \in alloc /\ heap[n].next \in alloc
    /\ \A k \in CppKeys : cache[k] \in Range(CppNodes)

C12_PopTailFindsANode ==
    \A newNode \in NodeIds \ alloc :
        LET h1 == Store(heap, newNode, NewNode(0, 0))
            popped == popTail(addNode(h1, newNode))
        IN  /\ popped.node \in (alloc \cup {newNode}) \ {head, tail}
            /\ popped.heap[head].prev = NULL
            /\ popped.heap[tail].next = NULL

C12_CallsAreTotal ==
    capacity >= 0
    => /\ C12_SentinelsIntact
       /\ C12_PointersLive
       /\ C12_PopTailFindsANode
       /\ \A key \in Keys : ENABLED Get(key)
       /\ \A key \in Keys, value \in Values : ENABLED Put(key, value)

\* a put into a cache of capacity 0 has run popTail on a list of one node
C12_Witness ==
    /\ capacity = 0
    /\ call.op = "put"
    /\ cppHist # <<>>
    /\ CppNodes = <<>>
    /\ head \in alloc /\ tail \in alloc

\* C13: while the keys put so far are at most capacity (>= 1) many, none of
\* them has been evicted, and get of any of them returns the value put last.
PutKeys == {k \in Keys : lastPut[k] # <<>>}

C13_NoEvictionWithinCapacity ==
    (capacity >= 1 /\ Cardinality(PutKeys) <= capacity)
    => /\ CppKeys = PutKeys
       /\ TsKeys = PutKeys
       /\ \A k \in PutKeys :
             /\ <<CppValue(k)>> = lastPut[k]
             /\ MapGet(tsCache, k) = lastPut[k]
       /\ (call.op = "get" /\ call.key \in PutKeys)
          => (<<cppRet>> = lastPut[call.key] /\ tsRet = lastPut[call.key])

\* get of a key after capacity many keys were put
C13_Witness ==
    /\ capacity = MaxCap
    /\ Cardinality(PutKeys) = capacity
    /\ call.op = "get"
    /\ call.key \in PutKeys
    /\ cppWas.size = capacity
    /\ <<cppRet>> = lastPut[call.key]
    /\ tsRet = lastPut[call.key]

\* C14: main() of LRUCache.cpp, capacity 2: get(1) returns 1, put(3,3) evicts
\* key 2 and leaves {1, 3}, get(2) returns -1, put(4,4) evicts key 1, get(1)
\* returns -1, get(3) returns 3, get(4) returns 4.
C14_CppDemoTrace ==
    /\ cppPc = 3 => cppRet = 1
    /\ cppPc = 4 => CppKeys = {1, 3} /\ CppOrder = <<3, 1>>
    /\ cppPc = 5 => cppRet = -1
    /\ cppPc = 6 => CppKeys = {3, 4} /\ CppOrder = <<4, 3>>
    /\ cppPc = 7 => cppRet = -1
    /\ cppPc = 8 => cppRet = 3
    /\ cppPc = 9 => cppRet = 4

C14_Witness == cppPc = Len(CppDemo) /\ capacity = 2 /\ CppKeys = {3, 4}

\* C15: the example usage of lruCache.ts, capacity 3: get('a') returns 1,
\* put('d', 4) evicts 'b' and not 'a', get('b') returns undefined, get('c')
\* returns 3.
C15_TsDemoTrace ==
    /\ tsPc = 4 => tsRet = <<1>>
    /\ tsPc = 5 => TsKeys = {"a", "c", "d"}
    /\ tsPc = 6 => tsRet = <<>>
    /\ tsPc = 7 => tsRet = <<3>>

C15_Witness == tsPc = Len(TsDemo) /\ tsCapacity = 3 /\ TsKeys = {"a", "c", "d"}

\* C16: no get or put changes the capacity field of either cache.
C16_CapacityFixed == [][capacity' = capacity /\ tsCapacity' = tsCapacity]_vars

\* after a put that evicted
C16_Witness ==
    /\ call.op = "put"
    /\ ~cppWas.resident /\ ~tsWas.resident
    /\ capacity = 1 /\ tsCapacity = 1
    /\ cppWas.size = 1 /\ tsWas.size = 1
    /\ CppSize = 1 /\ TsSize = 1

\* ===================================================== Trie.js (SpecTrie)
MaxWordLen == 2
MaxWordCount == 2

Alphabet == {"a", "b"}

RECURSIVE WordsOfLen(_)
WordsOfLen(n) ==
    IF n = 0 THEN {<<>>}
    ELSE {Append(w, c) : w \in WordsOfLen(n - 1), c \in Alphabet}

\* the strings given to insert, delete and search
Words == UNION {WordsOfLen(n) : n \in 0..MaxWordLen}

\* the keys of node.children
TrieChildren(nodes, node) == {c \in Alphabet : Append(node, c) \in DOMAIN nodes}

\* the loop of insert: walks word from the node reached after i characters
\* and creates the children that are missing
RECURSIVE InsertPath(_, _, _)
InsertPath(nodes, word, i) ==
    IF i = Len(word) THEN nodes
    ELSE LET child == SubSeq(word, 1, i + 1)
             n1 == IF child \in DOMAIN nodes
                   THEN nodes
                   ELSE nodes @@ (child :> NewTrieNode)
         IN  InsertPath(n1, word, i + 1)

\* _findNode(str): [found, node], found = FALSE for null
RECURSIVE FindNode(_, _, _)
FindNode(nodes, str, i) ==
    IF i = Len(str) THEN [found |-> TRUE, node |-> str]
    ELSE IF str[i + 1] \notin TrieChildren(nodes, SubSeq(str, 1, i))
         THEN [found |-> FALSE, node |-> <<>>]
         ELSE FindNode(nodes, str, i + 1)

\* search(word)
TrieSearchResult(nodes, word) ==
    LET f == FindNode(nodes, word, 0)
    IN  f.found /\ nodes[f.node].isEndOfWord

\* node.children.delete(char): the child and all below it leave the trie
DropSubtree(nodes, child) ==
    LET keep == {p \in DOMAIN nodes :
                    ~(Len(child) <= Len(p) /\ SubSeq(p, 1, Len(child)) = child)}
    IN  [p \in keep |-> nodes[p]]

\* deleteHelper(node, word, index) on the trie t = [nodes, size]: the trie it
\* leaves and the boolean it returns
RECURSIVE deleteHelper(_, _, _, _)
deleteHelper(t, node, word, index) ==
    IF index = Len(word)
    THEN IF ~t.nodes[node].isEndOfWord
         THEN [nodes |-> t.nodes, size |-> t.size, ret |-> FALSE]
         ELSE [nodes |-> [t.nodes EXCEPT ![node] = [isEndOfWord |-> FALSE, wordCount |-> 0]],
               size |-> t.size - 1,
               ret |-> TrieChildren(t.nodes, node) = {}]
    ELSE LET char == word[index + 1]
             childNode == Append(node, char)
         IN  IF char \notin TrieChildren(t.nodes, node)
             THEN [nodes |-> t.nodes, size |-> t.size, ret |-> FALSE]
             ELSE LET r == deleteHelper(t, childNode, word, index + 1)
                      n1 == DropSubtree(r.nodes, childNode)
                  IN  IF r.ret
                      THEN [nodes |-> n1, size |-> r.size,
                            ret |-> TrieChildren(n1, node) = {} /\ ~n1[node].isEndOfWord]
                      ELSE [nodes |-> r.nodes, size |-> r.size, ret |-> FALSE]

TrieInsert(word) ==
    /\ LET n1 == InsertPath(trieNodes, word, 0)
           node == n1[word]
       IN  /\ node.wordCount < MaxWordCount
           /\ trieSize' = IF ~node.isEndOfWord THEN trieSize + 1 ELSE trieSize
           /\ trieNodes' = [n1 EXCEPT ![word] =
                              [isEndOfWord |-> TRUE, wordCount |-> node.wordCount + 1]]
    /\ trieRet' = FALSE
    /\ trieCall' = [op |-> "insert", word |-> word, stored |-> word \in trieStored]
    /\ trieStored' = trieStored \cup {word}
    /\ UNCHANGED <<lruVars, demoVars, extVars, avlVars, ufVars, dsdVars>>

TrieDelete(word) ==
    /\ LET r == deleteHelper([nodes |-> trieNodes, size |-> trieSize], <<>>, word, 0)
       IN  /\ trieNodes' = r.nodes
           /\ trieSize' = r.size
           /\ trieRet' = r.ret
    /\ trieCall' = [op |-> "delete", word |-> word, stored |-> word \in trieStored]
    /\ trieStored' = trieStored \ {word}
    /\ UNCHANGED <<lruVars, demoVars, extVars, avlVars, ufVars, dsdVars>>

TrieSearch(word) ==
    /\ trieRet' = TrieSearchResult(trieNodes, word)
    /\ trieCall' = [op |-> "search", word |-> word, stored |-> word \in trieStored]
    /\ UNCHANGED <<trieNodes, trieSize, trieStored>>
    /\ UNCHANGED <<lruVars, demoVars, extVars, avlVars, ufVars, dsdVars>>

\* clear(): a new root, no word
TrieClear ==
    /\ trieNodes' = (<<>> :> NewTrieNode)
    /\ trieSize' = 0
    /\ trieRet' = FALSE
    /\ trieCall' = [op |-> "clear", word |-> <<>>, stored |-> FALSE]
    /\ trieStored' = {}
    /\ UNCHANGED <<lruVars, demoVars, extVars, avlVars, ufVars, dsdVars>>

InitTrie ==
    /\ LruIdle
    /\ LibIdle

NextTrie ==
    \/ \E word \in Words : TrieInsert(word)
    \/ \E word \in Words : TrieDelete(word)
    \/ \E word \in Words : TrieSearch(word)
    \/ TrieClear

SpecTrie == InitTrie /\ [][NextTrie]_vars

\* C17: delete(word) returns true exactly when word was stored before the
\* call (inserted and not deleted since), also when other stored words
\* continue it; the word is then no longer found and the size has dropped.
C17_DeleteReturnsWhetherStored ==
    trieCall.op = "delete"
    => /\ trieRet = trieCall.stored
       /\ ~TrieSearchResult(trieNodes, trieCall.word)
       /\ trieSize = Cardinality(trieStored)

\* ---------------------------------------------------------------------------
\* AVL tree (src/unnamed/part_018).  A node is <<value, left, right, height>>,
\* null is <<>>.
\* ---------------------------------------------------------------------------

MaxAvlVal == 4

MaxAvlSize == 5

AvlValues == 1..MaxAvlVal

AVLNode(value) == <<value, <<>>, <<>>, 1>>

Max(a, b) == IF a >= b THEN a ELSE b

getHeight(node) == IF node # <<>> THEN node[4] ELSE 0

getBalance(node) ==
    IF node # <<>> THEN getHeight(node[2]) - getHeight(node[3]) ELSE 0

updateHeight(node) ==
    IF node # <<>>
    THEN <<node[1], node[2], node[3], 1 + Max(getHeight(node[2]), getHeight(node[3]))>>
    ELSE node

rotateRight(y) ==
    LET x == y[2]
        T2 == x[3]
        y1 == updateHeight(<<y[1], T2, y[3], y[4]>>)
    IN  updateHeight(<<x[1], x[2], y1, x[4]>>)

rotateLeft(x) ==
    LET y == x[3]
        T2 == y[2]
        x1 == updateHeight(<<x[1], x[2], T2, x[4]>>)
    IN  updateHeight(<<y[1], x1, y[3], y[4]>>)

InsertRebalance(node0, value) ==
    LET node == updateHeight(node0)
        balance == getBalance(node)
    IN  IF balance > 1 /\ value < node[2][1] THEN rotateRight(node)
        ELSE IF balance < -1 /\ value > node[3][1] THEN rotateLeft(node)
        ELSE IF balance > 1 /\ value > node[2][1]
             THEN rotateRight(<<node[1], rotateLeft(node[2]), node[3], node[4]>>)
        ELSE IF balance < -1 /\ value < node[3][1]
             THEN rotateLeft(<<node[1], node[2], rotateRight(node[3]), node[4]>>)
        ELSE node

RECURSIVE insertNode(_, _)
insertNode(node, value) ==
    IF node = <<>> THEN AVLNode(value)
    ELSE IF value < node[1]
         THEN InsertRebalance(<<node[1], insertNode(node[2], value), node[3], node[4]>>, value)
    ELSE IF value > node[1]
         THEN InsertRebalance(<<node[1], node[2], insertNode(node[3], value), node[4]>>, value)
    ELSE node

RECURSIVE findMin(_)
findMin(node) == IF node[2] # <<>> THEN findMin(node[2]) ELSE node

DeleteRebalance(node0) ==
    LET node == updateHeight(node0)
        balance == getBalance(node)
    IN  IF balance > 1 /\ getBalance(node[2]) >= 0 THEN rotateRight(node)
        ELSE IF balance > 1 /\ getBalance(node[2]) < 0
             THEN rotateRight(<<node[1], rotateLeft(node[2]), node[3], node[4]>>)
        ELSE IF balance < -1 /\ getBalance(node[3]) <= 0 THEN rotateLeft(node)
        ELSE IF balance < -1 /\ getBalance(node[3]) > 0
             THEN rotateLeft(<<node[1], node[2], rotateRight(node[3]), node[4]>>)
        ELSE node

\* Returns [node, size]: the new subtree and the tree's size field.
RECURSIVE deleteNode(_, _, _)
deleteNode(node, value, size) ==
    IF node = <<>> THEN [node |-> <<>>, size |-> size]
    ELSE IF value < node[1]
         THEN LET r == deleteNode(node[2], value, size)
              IN  [node |-> DeleteRebalance(<<node[1], r.node, node[3], node[4]>>),
                   size |-> r.size]
    ELSE IF value > node[1]
         THEN LET r == deleteNode(node[3], value, size)
              IN  [node |-> DeleteRebalance(<<node[1], node[2], r.node, node[4]>>),
                   size |-> r.size]
    ELSE IF node[2] = <<>> \/ node[3] = <<>>
         THEN [node |-> IF node[2] # <<>> THEN node[2] ELSE node[3],
               size |-> size - 1]
    ELSE LET minRight == findMin(node[3])
             r == deleteNode(node[3], minRight[1], size - 1)
         IN  [node |-> DeleteRebalance(<<minRight[1], node[2], r.node, node[4]>>),
              size |-> r.size + 1]

RECURSIVE inorder(_)
inorder(node) ==
    IF node # <<>> THEN inorder(node[2]) \o <<node[1]>> \o inorder(node[3]) ELSE <<>>

AvlInsert(value) ==
    /\ avlSize < MaxAvlSize
    /\ avlRoot' = insertNode(avlRoot, value)
    /\ avlSize' = avlSize + 1
    /\ avlRet' = FALSE
    /\ avlCall' = [op |-> "insert", value |-> value]
    /\ UNCHANGED <<lruVars, demoVars, extVars, trieVars, ufVars, dsdVars>>

AvlDelete(value) ==
    /\ LET initialSize == avlSize
           r == deleteNode(avlRoot, value, avlSize)
       IN  /\ avlRoot' = r.node
           /\ avlSize' = r.size
           /\ avlRet' = (r.size < initialSize)
    /\ avlCall' = [op |-> "delete", value |-> value]
    /\ UNCHANGED <<lruVars, demoVars, extVars, trieVars, ufVars, dsdVars>>

\* clear(): no root, size 0
AvlClear ==
    /\ avlRoot' = <<>>
    /\ avlSize' = 0
    /\ avlRet' = FALSE
    /\ avlCall' = [op |-> "clear", value |-> 0]
    /\ UNCHANGED <<lruVars, demoVars, extVars, trieVars, ufVars, dsdVars>>

InitAvl ==
    /\ LruIdle
    /\ LibIdle

NextAvl ==
    \/ \E value \in AvlValues : AvlInsert(value)
    \/ \E value \in AvlValues : AvlDelete(value)
    \/ AvlClear

SpecAvl == InitAvl /\ [][NextAvl]_vars

\* C18: getSize() is the number of nodes of the tree: after every sequence of
\* insert and delete calls, duplicates and absent values included, the size
\* field equals the length of inorder().
C18_SizeIsNodeCount ==
    avlSize = Len(inorder(avlRoot))

\* ---------------------------------------------------------------------------
\* Union-Find (src/unnamed/part_016).  parent, rank and size are functions on
\* 0..n-1; uf is the record [parent, rank, size, componentCount].
\* ---------------------------------------------------------------------------

MaxUfN == 4

UfSizes == 0..MaxUfN

\* arguments of the calls: the elements, and MaxUfN, which is out of bounds
UfArgs == 0..MaxUfN

UfLength(parent) == Cardinality(DOMAIN parent)

\* find(x) with path compression: [parent, root, threw]
RECURSIVE find(_, _)
find(parent, x) ==
    IF x < 0 \/ x >= UfLength(parent)
    THEN [parent |-> parent, root |-> x, threw |-> TRUE]
    ELSE IF parent[x] # x
         THEN LET r == find(parent, parent[x])
              IN  IF r.threw THEN r
                  ELSE [parent |-> [r.parent EXCEPT ![x] = r.root],
                        root |-> r.root, threw |-> FALSE]
         ELSE [parent |-> parent, root |-> x, threw |-> FALSE]

unionKeepSize(uf, rootX, rootY) ==
    IF uf.rank[rootX] < uf.rank[rootY]
    THEN [uf EXCEPT !.parent[rootX] = rootY]
    ELSE IF uf.rank[rootX] > uf.rank[rootY]
         THEN [uf EXCEPT !.parent[rootY] = rootX]
         ELSE [uf EXCEPT !.parent[rootY] = rootX, !.rank[rootX] = @ + 1]

\* union by rank of two distinct roots
unionByRank(uf, rootX, rootY) ==
    IF uf.rank[rootX] < uf.rank[rootY]
    THEN [uf EXCEPT !.parent[rootX] = rootY,
                    !.size[rootY] = @ + uf.size[rootX]]
    ELSE IF uf.rank[rootX] > uf.rank[rootY]
         THEN [uf EXCEPT !.parent[rootY] = rootX,
                         !.size[rootX] = @ + uf.size[rootY]]
         ELSE [uf EXCEPT !.parent[rootY] = rootX,
                         !.size[rootX] = @ + uf.size[rootY],
                         !.rank[rootX] = @ + 1]

\* union(x, y): [uf, ret, threw]
union(uf, x, y) ==
    LET fx == find(uf.parent, x)
    IN  IF fx.threw THEN [uf |-> uf, ret |-> FALSE, threw |-> TRUE]
        ELSE LET fy == find(fx.parent, y)
                 u1 == [uf EXCEPT !.parent = fy.parent]
             IN  IF fy.threw
                 THEN [uf |-> [uf EXCEPT !.parent = fx.parent],
                       ret |-> FALSE, threw |-> TRUE]
                 ELSE IF fx.root = fy.root
                      THEN [uf |-> u1, ret |-> FALSE, threw |-> FALSE]
                      ELSE [uf |-> [unionByRank(u1, fx.root, fy.root)
                                      EXCEPT !.componentCount = @ - 1],
                            ret |-> TRUE, threw |-> FALSE]

UfState ==
    [parent |-> ufParent, rank |-> ufRank, size |-> ufSize,
     componentCount |-> ufCount]

UfInBounds(x) == x \in DOMAIN ufParent

\* the message of the Error that find throws, in place of a returned value
UfThrown == "Element out of bounds"

\* the record of a call: x is kept for getComponentSize alone, joined (were
\* the two arguments in one set before the call) for union and connected
UfCalled(op, x, joined, threw) ==
    [op |-> op, x |-> x, threw |-> threw, joined |-> joined, count |-> ufCount]

UfJoined(x, y) == UfInBounds(x) /\ y \in ufSets[x]

UnionCall(x, y) ==
    LET r == union(UfState, x, y)
        merged == ufSets[x] \cup ufSets[y]
    IN  /\ ufParent' = r.uf.parent
        /\ ufRank' = r.uf.rank
        /\ ufSize' = r.uf.size
        /\ ufCount' = r.uf.componentCount
        /\ ufRet' = IF r.threw THEN UfThrown ELSE r.ret
        /\ ufCall' = UfCalled("union", 0, UfJoined(x, y), r.threw)
        /\ ufSets' = IF UfInBounds(x) /\ UfInBounds(y)
                     THEN [i \in DOMAIN ufSets |->
                             IF i \in merged THEN merged ELSE ufSets[i]]
                     ELSE ufSets

GetComponentCountCall ==
    /\ ufRet' = ufCount
    /\ ufCall' = UfCalled("getComponentCount", 0, FALSE, FALSE)
    /\ UNCHANGED <<ufParent, ufRank, ufSize, ufCount, ufSets>>

GetComponentSizeCall(x) ==
    LET fx == find(ufParent, x)
    IN  /\ ufParent' = fx.parent
        /\ ufRet' = IF fx.threw THEN UfThrown ELSE ufSize[fx.root]
        /\ ufCall' = UfCalled("getComponentSize", x, FALSE, fx.threw)
        /\ UNCHANGED <<ufRank, ufSize, ufCount, ufSets>>

\* find(x) called from outside
FindCall(x) ==
    LET fx == find(ufParent, x)
    IN  /\ ufParent' = fx.parent
        /\ ufRet' = IF fx.threw THEN UfThrown ELSE fx.root
        /\ ufCall' = UfCalled("find", 0, FALSE, fx.threw)
        /\ UNCHANGED <<ufRank, ufSize, ufCount, ufSets>>

\* connected(x, y): find(x), then find(y)
ConnectedCall(x, y) ==
    LET fx == find(ufParent, x)
        fy == find(fx.parent, y)
    IN  /\ ufParent' = IF fx.threw THEN fx.parent ELSE fy.parent
        /\ ufRet' = IF fx.threw \/ fy.threw THEN UfThrown ELSE (fx.root = fy.root)
        /\ ufCall' = UfCalled("connected", 0, UfJoined(x, y), fx.threw \/ fy.threw)
        /\ UNCHANGED <<ufRank, ufSize, ufCount, ufSets>>

\* the loops of getComponent and getAllComponents: find(i) for i, i + 1, ...
\* up to parent.length - 1; [parent, roots], roots[i + 1] the root of i
RECURSIVE FindEach(_, _, _)
FindEach(parent, i, roots) ==
    IF i >= UfLength(parent) THEN [parent |-> parent, roots |-> roots]
    ELSE LET fi == find(parent, i)
         IN  FindEach(fi.parent, i + 1, Append(roots, fi.root))

\* the elements i, in increasing order, with roots[i + 1] = root
RECURSIVE ElementsOf(_, _, _)
ElementsOf(roots, root, i) ==
    IF i >= Len(roots) THEN <<>>
    ELSE (IF roots[i + 1] = root THEN <<i>> ELSE <<>>) \o ElementsOf(roots, root, i + 1)

\* getComponent(x): [parent, component, threw]
getComponent(parent, x) ==
    LET fx == find(parent, x)
        all == FindEach(fx.parent, 0, <<>>)
    IN  IF fx.threw THEN [parent |-> fx.parent, component |-> <<>>, threw |-> TRUE]
        ELSE [parent |-> all.parent,
              component |-> ElementsOf(all.roots, fx.root, 0), threw |-> FALSE]

\* the values of the Map of getAllComponents, in the order the roots were
\* first met
RECURSIVE ComponentsFrom(_, _, _)
ComponentsFrom(roots, i, seen) ==
    IF i >= Len(roots) THEN <<>>
    ELSE IF roots[i + 1] \in seen THEN ComponentsFrom(roots, i + 1, seen)
    ELSE <<ElementsOf(roots, roots[i + 1], 0)>>
         \o ComponentsFrom(roots, i + 1, seen \cup {roots[i + 1]})

\* getAllComponents(): [parent, components]
getAllComponents(parent) ==
    LET all == FindEach(parent, 0, <<>>)
    IN  [parent |-> all.parent, components |-> ComponentsFrom(all.roots, 0, {})]

GetComponentCall(x) ==
    LET r == getComponent(ufParent, x)
    IN  /\ ufParent' = r.parent
        /\ ufRet' = IF r.threw THEN UfThrown ELSE r.component
        /\ ufCall' = UfCalled("getComponent", 0, FALSE, r.threw)
        /\ UNCHANGED <<ufRank, ufSize, ufCount, ufSets>>

GetAllComponentsCall ==
    LET r == getAllComponents(ufParent)
    IN  /\ ufParent' = r.parent
        /\ ufRet' = r.components
        /\ ufCall' = UfCalled("getAllComponents", 0, FALSE, FALSE)
        /\ UNCHANGED <<ufRank, ufSize, ufCount, ufSets>>

\* reset(): every element alone again
ResetCall ==
    /\ ufParent' = [i \in DOMAIN ufParent |-> i]
    /\ ufRank' = [i \in DOMAIN ufParent |-> 0]
    /\ ufSize' = [i \in DOMAIN ufParent |-> 1]
    /\ ufCount' = UfLength(ufParent)
    /\ ufRet' = 0
    /\ ufCall' = UfCalled("reset", 0, FALSE, FALSE)
    /\ ufSets' = [i \in DOMAIN ufParent |-> {i}]

\* isFullyConnected()
IsFullyConnectedCall ==
    /\ ufRet' = (ufCount = 1)
    /\ ufCall' = UfCalled("isFullyConnected", 0, FALSE, FALSE)
    /\ UNCHANGED <<ufParent, ufRank, ufSize, ufCount, ufSets>>

\* toString(): the count and the components that the string shows
ToStringCall ==
    LET r == getAllComponents(ufParent)
    IN  /\ ufParent' = r.parent
        /\ ufRet' = [componentCount |-> ufCount, components |-> r.components]
        /\ ufCall' = UfCalled("toString", 0, FALSE, FALSE)
        /\ UNCHANGED <<ufRank, ufSize, ufCount, ufSets>>

\* visualize(): root, size and elements of each component, as the lines show
VisualizeCall ==
    LET r == getAllComponents(ufParent)
    IN  /\ ufParent' = r.parent
        /\ ufRet' = [idx \in 1..Len(r.components) |->
                       LET root == find(r.parent, r.components[idx][1]).root
                       IN  [root |-> root, size |-> ufSize[root],
                            elements |-> r.components[idx]]]
        /\ ufCall' = UfCalled("visualize", 0, FALSE, FALSE)
        /\ UNCHANGED <<ufRank, ufSize, ufCount, ufSets>>

UfUnion(x, y) ==
    /\ ufPc = -1
    /\ UnionCall(x, y)
    /\ UNCHANGED <<ufPc, ufWeight, lruVars, demoVars, extVars, trieVars, avlVars, dsdVars>>

UfGetComponentCount ==
    /\ ufPc = -1
    /\ GetComponentCountCall
    /\ UNCHANGED <<ufPc, ufWeight, lruVars, demoVars, extVars, trieVars, avlVars, dsdVars>>

UfGetComponentSize(x) ==
    /\ ufPc = -1
    /\ GetComponentSizeCall(x)
    /\ UNCHANGED <<ufPc, ufWeight, lruVars, demoVars, extVars, trieVars, avlVars, dsdVars>>

UfFind(x) ==
    /\ ufPc = -1
    /\ FindCall(x)
    /\ UNCHANGED <<ufPc, ufWeight, lruVars, demoVars, extVars, trieVars, avlVars, dsdVars>>

UfConnected(x, y) ==
    /\ ufPc = -1
    /\ ConnectedCall(x, y)
    /\ UNCHANGED <<ufPc, ufWeight, lruVars, demoVars, extVars, trieVars, avlVars, dsdVars>>

UfGetComponent(x) ==
    /\ ufPc = -1
    /\ GetComponentCall(x)
    /\ UNCHANGED <<ufPc, ufWeight, lruVars, demoVars, extVars, trieVars, avlVars, dsdVars>>

UfGetAllComponents ==
    /\ ufPc = -1
    /\ GetAllComponentsCall
    /\ UNCHANGED <<ufPc, ufWeight, lruVars, demoVars, extVars, trieVars, avlVars, dsdVars>>

UfReset ==
    /\ ufPc = -1
    /\ ResetCall
    /\ UNCHANGED <<ufPc, ufWeight, lruVars, demoVars, extVars, trieVars, avlVars, dsdVars>>

UfIsFullyConnected ==
    /\ ufPc = -1
    /\ IsFullyConnectedCall
    /\ UNCHANGED <<ufPc, ufWeight, lruVars, demoVars, extVars, trieVars, avlVars, dsdVars>>

UfToString ==
    /\ ufPc = -1
    /\ ToStringCall
    /\ UNCHANGED <<ufPc, ufWeight, lruVars, demoVars, extVars, trieVars, avlVars, dsdVars>>

UfVisualize ==
    /\ ufPc = -1
    /\ VisualizeCall
    /\ UNCHANGED <<ufPc, ufWeight, lruVars, demoVars, extVars, trieVars, avlVars, dsdVars>>

\* new UnionFind(6) and the calls of the network connectivity example
DemoUfSize == 6

UfDemo ==
    << [op |-> "getComponentCount", x |-> 0, y |-> 0],
       [op |-> "union", x |-> 0, y |-> 1],
       [op |-> "union", x |-> 2, y |-> 3],
       [op |-> "getComponentCount", x |-> 0, y |-> 0],
       [op |-> "union", x |-> 1, y |-> 2],
       [op |-> "getComponentCount", x |-> 0, y |-> 0],
       [op |-> "getComponentSize", x |-> 0, y |-> 0] >>

\* the next call of the network connectivity example
UfNetwork ==
    /\ ufPc >= 0
    /\ ufPc < Len(UfDemo)
    /\ LET c == UfDemo[ufPc + 1]
       IN  CASE c.op = "union" -> UnionCall(c.x, c.y)
             [] c.op = "getComponentCount" -> GetComponentCountCall
             [] c.op = "getComponentSize" -> GetComponentSizeCall(c.x)
    /\ ufPc' = ufPc + 1
    /\ UNCHANGED <<ufWeight, lruVars, demoVars, extVars, trieVars, avlVars, dsdVars>>

InitUf ==
    /\ LruIdle
    /\ TrieNew
    /\ AvlNew
    /\ DsdIdle
    /\ \/ \E n \in UfSizes : UfNew(n) /\ ufPc = -1
       \/ UfNew(DemoUfSize) /\ ufPc = 0

NextUf ==
    \/ \E x, y \in UfArgs : UfUnion(x, y)
    \/ UfGetComponentCount
    \/ \E x \in UfArgs : UfGetComponentSize(x)
    \/ \E x \in UfArgs : UfFind(x)
    \/ \E x, y \in UfArgs : UfConnected(x, y)
    \/ \E x \in UfArgs : UfGetComponent(x)
    \/ UfGetAllComponents
    \/ UfReset
    \/ UfIsFullyConnected
    \/ UfToString
    \/ UfVisualize
    \/ UfNetwork

SpecUf == InitUf /\ [][NextUf]_vars

UfRoot(x) == find(ufParent, x).root

\* C19: componentCount is the number of distinct sets and of distinct roots;
\* union(x, y) returns true exactly when x and y were in different sets
\* before the call and then lowers the count by exactly one, and otherwise
\* leaves it; getComponentSize(x) is the number of elements connected to x.
\* In the network example the counts are 6, 4, 3 and the last size is 4.
C19_ComponentBookkeeping ==
    /\ ufCount = Cardinality({ufSets[i] : i \in DOMAIN ufSets})
    /\ ufCount = Cardinality({i \in DOMAIN ufParent : ufParent[i] = i})
    /\ \A i, j \in DOMAIN ufParent : (UfRoot(i) = UfRoot(j)) <=> (j \in ufSets[i])
    /\ \A i \in DOMAIN ufParent : ufSize[UfRoot(i)] = Cardinality(ufSets[i])
    /\ (ufCall.op = "union" /\ ~ufCall.threw)
       => /\ ufRet = ~ufCall.joined
          /\ ufCount = IF ufRet THEN ufCall.count - 1 ELSE ufCall.count
    /\ (ufCall.op = "getComponentSize" /\ ~ufCall.threw)
       => ufRet = Cardinality(ufSets[ufCall.x])
    /\ (ufCall.op = "getComponentCount" /\ ufPc >= 0)
       => ufRet = (CASE ufPc = 1 -> 6 [] ufPc = 4 -> 4 [] ufPc = 6 -> 3)
    /\ ufPc = Len(UfDemo) => ufRet = 4

\* a getComponentSize that answered 3 after two unions that returned true
C19_Witness ==
    /\ ufCall.op = "getComponentSize"
    /\ ~ufCall.threw
    /\ ufRet = 3
    /\ ufCount = UfLength(ufParent) - 2
    /\ ufPc = -1

\* ---------------------------------------------------------------------------
\* WeightedUnionFind (src/unnamed/part_016), the subclass: find and union are
\* its own, without the bounds check and without rank and size; the other
\* methods are inherited and call its find.  The arguments are elements of
\* the structure.  wuf is the record [parent, weight].
\* ---------------------------------------------------------------------------

MaxUfWeight == 2

MaxWufN == 3

WufSizes == 0..MaxWufN

\* the weights w given to union
UfEdgeWeights == {-1, 0, 2}

\* new WeightedUnionFind(n)
WufNew(n) ==
    /\ ufParent = [i \in 0..(n - 1) |-> i]
    /\ ufRank = [i \in 0..(n - 1) |-> 0]
    /\ ufSize = [i \in 0..(n - 1) |-> 1]
    /\ ufCount = n
    /\ ufWeight = [i \in 0..(n - 1) |-> 0]
    /\ ufCall = [op |-> "new", x |-> 0, threw |-> FALSE,
                 joined |-> FALSE, count |-> n]
    /\ ufRet = 0
    /\ ufSets = [i \in 0..(n - 1) |-> {i}]

\* WeightedUnionFind.find(x): [parent, weight, root]
RECURSIVE weightedFind(_, _)
weightedFind(wuf, x) ==
    IF wuf.parent[x] # x
    THEN LET originalParent == wuf.parent[x]
             r == weightedFind(wuf, wuf.parent[x])
         IN  [parent |-> [r.parent EXCEPT ![x] = r.root],
              weight |-> [r.weight EXCEPT ![x] = @ + r.weight[originalParent]],
              root |-> r.root]
    ELSE [parent |-> wuf.parent, weight |-> wuf.weight, root |-> x]

\* WeightedUnionFind.union(x, y, w): [parent, weight, componentCount, ret]
weightedUnion(wuf, count, x, y, w) ==
    LET fx == weightedFind(wuf, x)
        fy == weightedFind(fx, y)
    IN  IF fx.root = fy.root
        THEN [parent |-> fy.parent, weight |-> fy.weight,
              componentCount |-> count, ret |-> FALSE]
        ELSE [parent |-> [fy.parent EXCEPT ![fx.root] = fy.root],
              weight |-> [fy.weight EXCEPT ![fx.root] = fy.weight[y] - fy.weight[x] + w],
              componentCount |-> count - 1, ret |-> TRUE]

\* the inherited loops with the subclass's find: [parent, weight, roots]
RECURSIVE WeightedFindEach(_, _, _)
WeightedFindEach(wuf, i, roots) ==
    IF i >= UfLength(wuf.parent)
    THEN [parent |-> wuf.parent, weight |-> wuf.weight, roots |-> roots]
    ELSE LET fi == weightedFind(wuf, i)
         IN  WeightedFindEach(fi, i + 1, Append(roots, fi.root))

WufState == [parent |-> ufParent, weight |-> ufWeight]

WufElements == DOMAIN ufParent

\* outside the file's example, the weights stay in the range the model follows
WufInRange(weight) ==
    ufPc = -1 => \A i \in DOMAIN weight : weight[i] \in (0 - MaxUfWeight)..MaxUfWeight

\* the message of the Error that diff throws
WufThrown == "Elements are not connected"

WeightedUnionCall(x, y, w) ==
    LET r == weightedUnion(WufState, ufCount, x, y, w)
        merged == ufSets[x] \cup ufSets[y]
    IN  /\ WufInRange(r.weight)
        /\ ufParent' = r.parent
        /\ ufWeight' = r.weight
        /\ ufCount' = r.componentCount
        /\ ufRet' = r.ret
        /\ ufCall' = UfCalled("union", 0, UfJoined(x, y), FALSE)
        /\ ufSets' = [i \in DOMAIN ufSets |-> IF i \in merged THEN merged ELSE ufSets[i]]
        /\ UNCHANGED <<ufRank, ufSize>>

WeightedFindCall(x) ==
    LET fx == weightedFind(WufState, x)
    IN  /\ WufInRange(fx.weight)
        /\ ufParent' = fx.parent
        /\ ufWeight' = fx.weight
        /\ ufRet' = fx.root
        /\ ufCall' = UfCalled("find", 0, FALSE, FALSE)
        /\ UNCHANGED <<ufRank, ufSize, ufCount, ufSets>>

\* the inherited connected(x, y)
WeightedConnectedCall(x, y) ==
    LET fx == weightedFind(WufState, x)
        fy == weightedFind(fx, y)
    IN  /\ WufInRange(fy.weight)
        /\ ufParent' = fy.parent
        /\ ufWeight' = fy.weight
        /\ ufRet' = (fx.root = fy.root)
        /\ ufCall' = UfCalled("connected", 0, UfJoined(x, y), FALSE)
        /\ UNCHANGED <<ufRank, ufSize, ufCount, ufSets>>

\* diff(x, y): throws unless connected(x, y)
DiffCall(x, y) ==
    LET fx == weightedFind(WufState, x)
        fy == weightedFind(fx, y)
        threw == fx.root # fy.root
    IN  /\ WufInRange(fy.weight)
        /\ ufParent' = fy.parent
        /\ ufWeight' = fy.weight
        /\ ufRet' = IF threw THEN WufThrown ELSE fy.weight[x] - fy.weight[y]
        /\ ufCall' = UfCalled("diff", 0, UfJoined(x, y), threw)
        /\ UNCHANGED <<ufRank, ufSize, ufCount, ufSets>>

\* the inherited getComponentSize(x): size[] is never written by the subclass
WeightedGetComponentSizeCall(x) ==
    LET fx == weightedFind(WufState, x)
    IN  /\ WufInRange(fx.weight)
        /\ ufParent' = fx.parent
        /\ ufWeight' = fx.weight
        /\ ufRet' = ufSize[fx.root]
        /\ ufCall' = UfCalled("getComponentSize", x, FALSE, FALSE)
        /\ UNCHANGED <<ufRank, ufSize, ufCount, ufSets>>

\* the inherited getComponent(x)
WeightedGetComponentCall(x) ==
    LET fx == weightedFind(WufState, x)
        all == WeightedFindEach(fx, 0, <<>>)
    IN  /\ WufInRange(all.weight)
        /\ ufParent' = all.parent
        /\ ufWeight' = all.weight
        /\ ufRet' = ElementsOf(all.roots, fx.root, 0)
        /\ ufCall' = UfCalled("getComponent", 0, FALSE, FALSE)
        /\ UNCHANGED <<ufRank, ufSize, ufCount, ufSets>>

\* the inherited getAllComponents(), and toString(), which calls it
WeightedGetAllComponentsCall(op) ==
    LET all == WeightedFindEach(WufState, 0, <<>>)
        components == ComponentsFrom(all.roots, 0, {})
    IN  /\ WufInRange(all.weight)
        /\ ufParent' = all.parent
        /\ ufWeight' = all.weight
        /\ ufRet' = IF op = "toString"
                    THEN [componentCount |-> ufCount, components |-> components]
                    ELSE components
        /\ ufCall' = UfCalled(op, 0, FALSE, FALSE)
        /\ UNCHANGED <<ufRank, ufSize, ufCount, ufSets>>

\* the forEach of visualize(): one more find(component[0]) for each
\* component, after those of getAllComponents(): [parent, weight, roots]
RECURSIVE WeightedFindFirsts(_, _, _)
WeightedFindFirsts(wuf, components, roots) ==
    IF Len(roots) >= Len(components)
    THEN [parent |-> wuf.parent, weight |-> wuf.weight, roots |-> roots]
    ELSE LET f == weightedFind(wuf, components[Len(roots) + 1][1])
         IN  WeightedFindFirsts(f, components, Append(roots, f.root))

\* the inherited visualize(): root, size and elements of each component
WeightedVisualizeCall ==
    LET all == WeightedFindEach(WufState, 0, <<>>)
        components == ComponentsFrom(all.roots, 0, {})
        firsts == WeightedFindFirsts(all, components, <<>>)
    IN  /\ WufInRange(firsts.weight)
        /\ ufParent' = firsts.parent
        /\ ufWeight' = firsts.weight
        /\ ufRet' = [idx \in 1..Len(components) |->
                       [root |-> firsts.roots[idx],
                        size |-> ufSize[firsts.roots[idx]],
                        elements |-> components[idx]]]
        /\ ufCall' = UfCalled("visualize", 0, FALSE, FALSE)
        /\ UNCHANGED <<ufRank, ufSize, ufCount, ufSets>>

WufUnion(x, y, w) ==
    /\ ufPc = -1
    /\ WeightedUnionCall(x, y, w)
    /\ UNCHANGED <<ufPc, lruVars, demoVars, extVars, trieVars, avlVars, dsdVars>>

WufFind(x) ==
    /\ ufPc = -1
    /\ WeightedFindCall(x)
    /\ UNCHANGED <<ufPc, lruVars, demoVars, extVars, trieVars, avlVars, dsdVars>>

WufConnected(x, y) ==
    /\ ufPc = -1
    /\ WeightedConnectedCall(x, y)
    /\ UNCHANGED <<ufPc, lruVars, demoVars, extVars, trieVars, avlVars, dsdVars>>

WufDiff(x, y) ==
    /\ ufPc = -1
    /\ DiffCall(x, y)
    /\ UNCHANGED <<ufPc, lruVars, demoVars, extVars, trieVars, avlVars, dsdVars>>

WufGetComponentSize(x) ==
    /\ ufPc = -1
    /\ WeightedGetComponentSizeCall(x)
    /\ UNCHANGED <<ufPc, lruVars, demoVars, extVars, trieVars, avlVars, dsdVars>>

WufGetComponent(x) ==
    /\ ufPc = -1
    /\ WeightedGetComponentCall(x)
    /\ UNCHANGED <<ufPc, lruVars, demoVars, extVars, trieVars, avlVars, dsdVars>>

WufGetAllComponents(op) ==
    /\ ufPc = -1
    /\ WeightedGetAllComponentsCall(op)
    /\ UNCHANGED <<ufPc, lruVars, demoVars, extVars, trieVars, avlVars, dsdVars>>

WufVisualize ==
    /\ ufPc = -1
    /\ WeightedVisualizeCall
    /\ UNCHANGED <<ufPc, lruVars, demoVars, extVars, trieVars, avlVars, dsdVars>>

\* the inherited getComponentCount() and isFullyConnected()
WufGetComponentCount ==
    /\ ufPc = -1
    /\ GetComponentCountCall
    /\ UNCHANGED <<ufPc, ufWeight, lruVars, demoVars, extVars, trieVars, avlVars, dsdVars>>

WufIsFullyConnected ==
    /\ ufPc = -1
    /\ IsFullyConnectedCall
    /\ UNCHANGED <<ufPc, ufWeight, lruVars, demoVars, extVars, trieVars, avlVars, dsdVars>>

\* the inherited reset(): weight[] is left as it is
WufReset ==
    /\ ufPc = -1
    /\ ResetCall
    /\ UNCHANGED <<ufPc, ufWeight, lruVars, demoVars, extVars, trieVars, avlVars, dsdVars>>

\* new WeightedUnionFind(5) and the calls of the file's example
DemoWufSize == 5

WufDemo ==
    << [op |-> "union", x |-> 0, y |-> 1, w |-> 3],
       [op |-> "union", x |-> 1, y |-> 2, w |-> 2],
       [op |-> "diff", x |-> 0, y |-> 2, w |-> 0] >>

WufExample ==
    /\ ufPc >= 0
    /\ ufPc < Len(WufDemo)
    /\ LET c == WufDemo[ufPc + 1]
       IN  CASE c.op = "union" -> WeightedUnionCall(c.x, c.y, c.w)
             [] c.op = "diff" -> DiffCall(c.x, c.y)
    /\ ufPc' = ufPc + 1
    /\ UNCHANGED <<lruVars, demoVars, extVars, trieVars, avlVars, dsdVars>>

InitWuf ==
    /\ LruIdle
    /\ TrieNew
    /\ AvlNew
    /\ DsdIdle
    /\ \/ \E n \in WufSizes : WufNew(n) /\ ufPc = -1
       \/ WufNew(DemoWufSize) /\ ufPc = 0

NextWuf ==
    \/ \E x, y \in WufElements : \E w \in UfEdgeWeights : WufUnion(x, y, w)
    \/ \E x \in WufElements : WufFind(x)
    \/ \E x, y \in WufElements : WufConnected(x, y)
    \/ \E x, y \in WufElements : WufDiff(x, y)
    \/ \E x \in WufElements : WufGetComponentSize(x)
    \/ \E x \in WufElements : WufGetComponent(x)
    \/ \E op \in {"getAllComponents", "toString"} : WufGetAllComponents(op)
    \/ WufVisualize
    \/ WufGetComponentCount
    \/ WufIsFullyConnected
    \/ WufReset
    \/ WufExample

SpecWuf == InitWuf /\ [][NextWuf]_vars

\* ---------------------------------------------------------------------------
\* divisibleSumsDifference (src/c++/DivisibleSumsDifference.cpp).  int is 32
\* bits wide, the sums are long long.
\* ---------------------------------------------------------------------------

IntMax == 2147483647

IntMin == 0 - IntMax - 1

MaxArrLen == 2

DsdElems == {IntMin, -7, -3, 0, 8, 12, IntMax}

DsdDivisors == {-3, -1, 0, 1, 2, 3}

RECURSIVE SeqsUpTo(_, _)
SeqsUpTo(S, n) ==
    IF n = 0 THEN {<<>>}
    ELSE LET shorter == SeqsUpTo(S, n - 1)
         IN  shorter \cup {Append(s, x) : s \in shorter, x \in S}

DsdArrays == SeqsUpTo(DsdElems, MaxArrLen)

Abs(n) == IF n < 0 THEN 0 - n ELSE n

\* num % divisor is defined unless divisor is 0 or the quotient is not an int
RemDefined(num, divisor) ==
    divisor # 0 /\ ~(num = IntMin /\ divisor = -1)

\* num % divisor where defined: truncated division, the sign of num
CRem(num, divisor) ==
    LET m == num % Abs(divisor)
    IN  IF num < 0 /\ m # 0 THEN m - Abs(divisor) ELSE m

InitDsd ==
    /\ LruIdle
    /\ TrieNew
    /\ AvlNew
    /\ UfNew(0)
    /\ ufPc = -1
    /\ dsdArr \in DsdArrays
    /\ dsdDivisor \in DsdDivisors
    /\ dsdPc = "entry"
    /\ dsdI = 0
    /\ dsdDivisibleSum = LLOf(0)
    /\ dsdNonDivisibleSum = LLOf(0)
    /\ dsdRet = LLOf(0)

\* the check of the divisor and the initialisation of the sums
DsdEnter ==
    /\ dsdPc = "entry"
    /\ dsdPc' = IF dsdDivisor = 0 THEN "thrown" ELSE "loop"
    /\ dsdDivisibleSum' = LLOf(0)
    /\ dsdNonDivisibleSum' = LLOf(0)
    /\ UNCHANGED <<dsdArr, dsdDivisor, dsdI, dsdRet>>
    /\ UNCHANGED <<lruVars, demoVars, extVars, trieVars, avlVars, ufVars>>

\* one iteration of the loop.  INT_MIN % -1 is undefined: the build either
\* traps on the division or takes the remainder to be 0.
DsdLoop ==
    /\ dsdPc = "loop"
    /\ dsdI < Len(dsdArr)
    /\ LET num == dsdArr[dsdI + 1]
       IN  \/ /\ RemDefined(num, dsdDivisor)
              /\ IF CRem(num, dsdDivisor) = 0
                 THEN /\ dsdDivisibleSum' = LLAdd(dsdDivisibleSum, LLOf(num))
                      /\ UNCHANGED dsdNonDivisibleSum
                 ELSE /\ dsdNonDivisibleSum' = LLAdd(dsdNonDivisibleSum, LLOf(num))
                      /\ UNCHANGED dsdDivisibleSum
              /\ dsdI' = dsdI + 1
              /\ UNCHANGED dsdPc
           \/ /\ ~RemDefined(num, dsdDivisor)
              /\ dsdDivisibleSum' = LLAdd(dsdDivisibleSum, LLOf(num))
              /\ dsdI' = dsdI + 1
              /\ UNCHANGED <<dsdNonDivisibleSum, dsdPc>>
           \/ /\ ~RemDefined(num, dsdDivisor)
              /\ dsdPc' = "trapped"
              /\ UNCHANGED <<dsdI, dsdDivisibleSum, dsdNonDivisibleSum>>
    /\ UNCHANGED <<dsdArr, dsdDivisor, dsdRet>>
    /\ UNCHANGED <<lruVars, demoVars, extVars, trieVars, avlVars, ufVars>>

DsdReturn ==
    /\ dsdPc = "loop"
    /\ dsdI = Len(dsdArr)
    /\ dsdRet' = LLAbs(LLSub(dsdDivisibleSum, dsdNonDivisibleSum))
    /\ dsdPc' = "returned"
    /\ UNCHANGED <<dsdArr, dsdDivisor, dsdI, dsdDivisibleSum, dsdNonDivisibleSum>>
    /\ UNCHANGED <<lruVars, demoVars, extVars, trieVars, avlVars, ufVars>>

NextDsd == DsdEnter \/ DsdLoop \/ DsdReturn

SpecDsd == InitDsd /\ [][NextDsd]_vars

\* the sum of the elements of arr that are (divisible = TRUE) or are not
\* (divisible = FALSE) integer multiples of divisor
RECURSIVE SumWhere(_, _, _)
SumWhere(arr, divisor, divisible) ==
    IF arr = <<>> THEN LLOf(0)
    ELSE LET num == Head(arr)
             rest == SumWhere(Tail(arr), divisor, divisible)
         IN  IF (num % Abs(divisor) = 0) = divisible
             THEN LLAdd(LLOf(num), rest)
             ELSE rest

\* C20: for every int vector, divisibleSumsDifference throws exactly when
\* divisor is 0 and otherwise returns the absolute difference between the sum
\* of the elements divisible by divisor and the sum of the others: the call
\* ends in no other way.
C20_ThrowsOrReturnsDifference ==
    /\ dsdPc = "thrown" => dsdDivisor = 0
    /\ dsdPc \in {"loop", "returned", "trapped"} => dsdDivisor # 0
    /\ dsdPc = "returned"
       => dsdRet = LLAbs(LLSub(SumWhere(dsdArr, dsdDivisor, TRUE),
                               SumWhere(dsdArr, dsdDivisor, FALSE)))
    /\ dsdPc # "trapped"

\* ---------------------------------------------------------------------------
\* The two caches again: results of get, ownership of the nodes, the shape of
\* the list, frames of the calls.
\* ---------------------------------------------------------------------------

\* C21 as stated: with arbitrary int values, the C++ get returns -1 if and
\* only if its key is not resident at the time of the call.
C21_MinusOneIffMiss ==
    call.op = "get" => (cppRet = NotFound <=> ~cppWas.resident)

\* C21, amended: the C++ get returns -1 whenever its key is not resident, and
\* returns -1 for a resident key only when -1 is the value stored for it (the
\* value of its latest put).
C21_MinusOneOnMissOrStored ==
    call.op = "get"
    => /\ ~cppWas.resident => cppRet = NotFound
       /\ (cppWas.resident /\ cppRet = NotFound) => lastPut[call.key] = <<NotFound>>

\* a hit that returned -1, the value stored
C21_Witness ==
    /\ call.op = "get"
    /\ cppWas.resident
    /\ cppRet = NotFound
    /\ lastPut[call.key] = <<NotFound>>
    /\ CppSize >= 2

\* C23: for capacity >= 1 the two caches are observationally equivalent: after
\* every call they hold the same keys with the same values in the same
\* recency order, and every get returns the same result, -1 standing for
\* undefined when the value put for the key is not -1.
C23_SameObservations ==
    (capacity >= 1 /\ tsCapacity = capacity)
    => /\ CppKeys = TsKeys
       /\ CppOrder = TsOrder
       /\ CppSize = TsSize
       /\ \A k \in CppKeys : <<CppValue(k)>> = MapGet(tsCache, k)
       /\ call.op = "get"
          => /\ tsRet = <<>> => cppRet = NotFound
             /\ tsRet # <<>> => tsRet = <<cppRet>>
             /\ (cppRet = NotFound /\ lastPut[call.key] # <<NotFound>>) => tsRet = <<>>

\* a get that hit in both caches after a key was evicted from both
C23_Witness ==
    /\ capacity = MaxCap
    /\ call.op = "get"
    /\ cppWas.resident /\ tsWas.resident
    /\ cppRet # NotFound /\ tsRet = <<cppRet>>
    /\ CppOrder = TsOrder /\ Len(CppOrder) = MaxCap
    /\ Len(cppHist) > MaxCap
    /\ \E k \in CppKeys : CppValue(k) # cppRet

\* the nodes from n to the head sentinel, following prev
RECURSIVE ChainBack(_, _, _)
ChainBack(h, n, fuel) ==
    IF n = head \/ n = NULL \/ fuel = 0 THEN <<>>
    ELSE <<n>> \o ChainBack(h, h[n].prev, fuel - 1)

CppNodesBack == ChainBack(heap, heap[tail].prev, Cardinality(NodeIds))

\* C25: after every call the list is well formed: head->prev and tail->next
\* are null, every linked node n between the sentinels has n->prev->next = n
\* and n->next->prev = n, following next from head reaches tail and meets no
\* node twice, and following prev from tail meets the same nodes in reverse.
C25_ListWellFormed ==
    /\ \A n \in alloc : /\ heap[n].prev \in alloc \cup {NULL}
                        /\ heap[n].next \in alloc \cup {NULL}
    /\ heap[head].prev = NULL
    /\ heap[tail].next = NULL
    /\ \A i \in 1..Len(CppNodes) :
          LET n == CppNodes[i]
          IN  /\ heap[n].prev # NULL /\ heap[n].next # NULL
              /\ heap[heap[n].prev].next = n
              /\ heap[heap[n].next].prev = n
    /\ heap[IF CppNodes = <<>> THEN head ELSE Last(CppNodes)].next = tail
    /\ Cardinality(Range(CppNodes)) = Len(CppNodes)
    /\ head \notin Range(CppNodes)
    /\ CppNodesBack = Reverse(CppNodes)
    /\ heap[IF CppNodesBack = <<>> THEN tail ELSE Last(CppNodesBack)].prev = head

\* a get moved the last of MaxCap linked nodes to the front
C25_Witness ==
    /\ call.op = "get"
    /\ cppWas.resident
    /\ Len(CppNodes) = MaxCap
    /\ MaxCap >= 2
    /\ Len(cppHist) > MaxCap
    /\ CppNodesBack = Reverse(CppNodes)

\* C26: for capacity >= 1, put(key, value) changes the value of no other
\* resident key, removes at most one other key, which is then the least
\* recently used one, and only when key was not resident and the cache was
\* full, and keeps the relative recency order of the other keys that stay.
C26_CppStep ==
    (call'.op = "put" /\ capacity >= 1)
    => LET key == call'.key
           removed == CppKeys \ CppKeys'
       IN  /\ \A k \in (CppKeys \cap CppKeys') \ {key} :
                 heap'[cache'[k]].value = heap[cache[k]].value
           /\ key \notin removed
           /\ Cardinality(removed) <= 1
           /\ removed # {} => /\ key \notin CppKeys
                              /\ CppSize = capacity
                              /\ removed = {Last(CppOrder)}
           /\ CppKeys' \subseteq CppKeys \cup {key}
           /\ Without(CppOrder', key) = Restrict(Without(CppOrder, key), CppKeys')

C26_TsStep ==
    (call'.op = "put" /\ tsCapacity >= 1)
    => LET key == call'.key
           removed == TsKeys \ TsKeys'
       IN  /\ \A k \in (TsKeys \cap TsKeys') \ {key} :
                 MapGet(tsCache', k) = MapGet(tsCache, k)
           /\ key \notin removed
           /\ Cardinality(removed) <= 1
           /\ removed # {} => /\ key \notin TsKeys
                              /\ TsSize = tsCapacity
                              /\ removed = {Last(TsOrder)}
           /\ TsKeys' \subseteq TsKeys \cup {key}
           /\ Without(TsOrder', key) = Restrict(Without(TsOrder, key), TsKeys')

C26_PutFrame == [][C26_CppStep /\ C26_TsStep]_vars

\* a put into a full cache of capacity 3 or more evicted the tail and left
\* two other keys, with different values, in the order they had
C26_Witness ==
    /\ call.op = "put"
    /\ capacity = WideCap /\ WideCap >= 3
    /\ ~cppWas.resident /\ cppWas.size = capacity
    /\ ~tsWas.resident /\ tsWas.size = tsCapacity
    /\ Len(CppOrder) = WideCap /\ Len(TsOrder) = WideCap
    /\ CppOrder = TsOrder
    /\ CppOrder = SubSeq(cppHist, 1, WideCap)
    /\ CppValue(CppOrder[2]) # CppValue(CppOrder[3])
    /\ cppHist[WideCap + 1] \notin CppKeys

\* C27: a get of a resident key changes nothing but the position of that key:
\* the resident keys, the size, every stored value and the relative recency
\* order of all the other keys are the same before and after the call.
C27_CppStep ==
    (call'.op = "get" /\ call'.key \in CppKeys)
    => /\ CppKeys' = CppKeys
       /\ CppSize' = CppSize
       /\ Len(CppOrder') = Len(CppOrder)
       /\ \A k \in CppKeys : heap'[cache'[k]].value = heap[cache[k]].value
       /\ Without(CppOrder', call'.key) = Without(CppOrder, call'.key)
       /\ cache' = cache /\ alloc' = alloc /\ capacity' = capacity

C27_TsStep ==
    (call'.op = "get" /\ call'.key \in TsKeys)
    => /\ TsKeys' = TsKeys
       /\ TsSize' = TsSize
       /\ \A k \in TsKeys : MapGet(tsCache', k) = MapGet(tsCache, k)
       /\ Without(TsOrder', call'.key) = Without(TsOrder, call'.key)
       /\ tsCapacity' = tsCapacity

C27_GetHitFrame == [][C27_CppStep /\ C27_TsStep]_vars

\* a get that hit in a full cache of capacity 3 or more, after an eviction:
\* two other keys, with different values, stay in the order they had
C27_Witness ==
    /\ call.op = "get"
    /\ cppWas.resident /\ tsWas.resident
    /\ cppWas.size = WideCap /\ WideCap >= 3
    /\ CppOrder[1] = call.key /\ TsOrder[1] = call.key
    /\ cppHist[1] = call.key
    /\ CppOrder = TsOrder
    /\ CppOrder = SubSeq(cppHist, 1, WideCap)
    /\ CppValue(CppOrder[2]) # CppValue(CppOrder[3])
    /\ Len(cppHist) > WideCap

\* C28: for capacity >= 1, right after put(k, v) the key k is resident at the
\* most recently used position with value v, its node is allocated and was
\* not the one evicted, and a get(k) made next returns v.
C28_CppStep ==
    /\ (call'.op = "put" /\ capacity >= 1)
       => /\ call'.key \in CppKeys'
          /\ CppOrder' # <<>>
          /\ CppOrder'[1] = call'.key
          /\ cache'[call'.key] \in alloc'
          /\ heap'[head'].next = cache'[call'.key]
          /\ heap'[cache'[call'.key]].value = call'.value
    /\ (call.op = "put" /\ capacity >= 1 /\ call'.op = "get" /\ call'.key = call.key)
       => cppRet' = call.value

C28_TsStep ==
    /\ (call'.op = "put" /\ tsCapacity >= 1)
       => /\ call'.key \in TsKeys'
          /\ TsOrder'[1] = call'.key
          /\ MapGet(tsCache', call'.key) = <<call'.value>>
    /\ (call.op = "put" /\ tsCapacity >= 1 /\ call'.op = "get" /\ call'.key = call.key)
       => tsRet' = <<call.value>>

C28_PutThenGet == [][C28_CppStep /\ C28_TsStep]_vars

\* a put of a new key into a full cache: the new node was linked, the tail
\* evicted, and the new key is at the front with its value
C28_Witness ==
    /\ call.op = "put"
    /\ capacity >= 1
    /\ ~cppWas.resident /\ cppWas.size = capacity
    /\ ~tsWas.resident /\ tsWas.size = tsCapacity
    /\ CppSize = capacity
    /\ CppOrder[1] = call.key /\ TsOrder[1] = call.key
    /\ CppValue(call.key) = call.value
    /\ MapGet(tsCache, call.key) = <<call.value>>

\* ---------------------------------------------------------------------------
\* The C++ cache alone, and with a copy of it: the claims.
\* ---------------------------------------------------------------------------

\* the nodes the original links or has in its map
CppOwned == {head, tail} \cup Range(CppNodes) \cup {cache[k] : k \in DOMAIN cache}

\* C22: a copy of the cache shares no Node with the original; the construction
\* of the copy and every later put, get or destruction of the copy leave the
\* order and the values of the original as they are and free no node that the
\* original links.
C22_CopyActs ==
    \/ CopyConstruct
    \/ CopyAssign
    \/ \E key \in Keys : CopyGet(key)
    \/ \E key \in Keys, value \in Values : CopyPut(key, value)
    \/ CopyDestroy
    \/ copyState = "destroying" /\ DestroyLoop

C22_CopyStep ==
    C22_CopyActs
    => /\ copyState' = "live"
          => ({copyHead', copyTail'} \cup {copyCache'[k] : k \in DOMAIN copyCache'})
                 \cap CppOwned' = {}
       /\ CppOrder' = CppOrder
       /\ \A k \in DOMAIN cache : heap'[cache[k]].value = heap[cache[k]].value
       /\ CppOwned \subseteq alloc'

C22_CopyIsIndependent == [][C22_CopyStep]_vars

NoRepeat(s) == Cardinality(Range(s)) = Len(s)

\* C24: the nodes allocated and not deleted are the two sentinels and the
\* nodes of the hash map, one per key, after every put and get; no map entry
\* and no link of an allocated node points at a deleted node; the destructor
\* deletes allocated nodes only, each once, and leaves none allocated.
C24_NodeOwnership ==
    /\ cppLife \in {"alive", "display"}
       => /\ alloc = {head, tail} \cup {cache[k] : k \in DOMAIN cache}
          /\ Cardinality(alloc) = 2 + Cardinality(DOMAIN cache)
          /\ \A n \in alloc : /\ heap[n].prev \in alloc \cup {NULL}
                              /\ heap[n].next \in alloc \cup {NULL}
    /\ cppLife = "destroying"
       => /\ current # NULL => current \in alloc
          /\ NoRepeat(visited)
          /\ Range(visited) \cap alloc = {}
          /\ Range(visited) \cup alloc = {head, tail} \cup {cache[k] : k \in DOMAIN cache}
    /\ cppLife = "destroyed"
       => /\ alloc = {}
          /\ NoRepeat(visited)
          /\ Range(visited) = {head, tail} \cup {cache[k] : k \in DOMAIN cache}

\* the destructor has deleted the sentinels and the nodes of a full cache of
\* the largest capacity
C24_Witness ==
    /\ cppLife = "destroyed"
    /\ alloc = {}
    /\ capacity = MaxCap
    /\ Len(visited) = MaxCap + 2

\* C29: display() visits the linked nodes from head->next to tail, each once,
\* and returns; the destructor visits head, the linked nodes and tail, each
\* once, and returns; a cache in use can take every get and every put, which
\* are single steps.
C29_TraversalsTerminate ==
    /\ [](cppLife = "alive"
          => \A key \in Keys :
                /\ ENABLED (LifeGet(key) /\ cppLife' = "alive")
                /\ \A value \in Values :
                      ENABLED (LifePut(key, value) /\ cppLife' = "alive"))
    /\ [](cppLife = "display"
          => /\ NoRepeat(visited)
             /\ visited \o Chain(heap, current, Cardinality(NodeIds)) = CppNodes)
    /\ [](cppLife \in {"destroying", "destroyed"}
          => /\ NoRepeat(visited)
             /\ Len(visited) <= 2 + Cardinality(DOMAIN cache))
    /\ [](cppLife = "destroyed"
          => /\ Len(visited) = 2 + Cardinality(DOMAIN cache)
             /\ visited[1] = head
             /\ Last(visited) = tail)
    /\ (cppLife = "display") ~> (cppLife = "alive")
    /\ (cppLife = "destroying") ~> (cppLife = "destroyed")

\* display() is at tail after it has visited the nodes of a full cache
C29_Witness ==
    /\ cppLife = "display"
    /\ current = tail
    /\ capacity = MaxCap
    /\ Len(visited) = MaxCap
    /\ visited = CppNodes

\* ---------------------------------------------------------------------------
\* The array queue (src/java/Queue.java).
\* ---------------------------------------------------------------------------

MaxQueueCap == 3

QueueCapacities == 0..MaxQueueCap

\* the items enqueued; -1 is among them because an item is any int
QueueItems == {-1, 7, 8}

isEmpty == qSize = 0

isFull == qSize = qCapacity

\* a variant of enqueue that does not test for a full queue
EnqueueCallOverwriting(item) ==
    /\ IF qCapacity = 0
       THEN UNCHANGED <<qRear, qArr, qSize, qPending>>
       ELSE /\ qRear' = (qRear + 1) % qCapacity
            /\ qArr' = [qArr EXCEPT ![(qRear + 1) % qCapacity] = item]
            /\ qSize' = qSize + 1
            /\ qPending' = IF isFull THEN qPending ELSE Append(qPending, item)
    /\ qRet' = 0
    /\ qCall' = [op |-> "enqueue", item |-> item]
    /\ UNCHANGED <<qCapacity, qFront>>

\* queue.enqueue(item)
EnqueueCall(item) ==
    /\ IF isFull
       THEN UNCHANGED <<qRear, qArr, qSize, qPending>>
       ELSE /\ qRear' = (qRear + 1) % qCapacity
            /\ qArr' = [qArr EXCEPT ![(qRear + 1) % qCapacity] = item]
            /\ qSize' = qSize + 1
            /\ qPending' = Append(qPending, item)
    /\ qRet' = 0
    /\ qCall' = [op |-> "enqueue", item |-> item]
    /\ UNCHANGED <<qCapacity, qFront>>

\* queue.dequeue()
DequeueCall ==
    /\ IF isEmpty
       THEN /\ qRet' = -1
            /\ UNCHANGED <<qFront, qSize, qPending>>
       ELSE /\ qRet' = qArr[qFront]
            /\ qFront' = (qFront + 1) % qCapacity
            /\ qSize' = qSize - 1
            /\ qPending' = Tail(qPending)
    /\ qCall' = [op |-> "dequeue", item |-> 0]
    /\ UNCHANGED <<qCapacity, qArr, qRear>>

\* queue.peek()
PeekCall ==
    /\ qRet' = IF isEmpty THEN -1 ELSE qArr[qFront]
    /\ qCall' = [op |-> "peek", item |-> 0]
    /\ UNCHANGED <<qCapacity, qArr, qFront, qRear, qSize, qPending>>

\* queue.size()
SizeCall ==
    /\ qRet' = qSize
    /\ qCall' = [op |-> "size", item |-> 0]
    /\ UNCHANGED <<qCapacity, qArr, qFront, qRear, qSize, qPending>>

QueueEnqueue(item) ==
    /\ qPc = -1
    /\ EnqueueCall(item)
    /\ UNCHANGED <<qPc, lruVars, demoVars, libVars, lifeVars, copyVars>>

QueueDequeue ==
    /\ qPc = -1
    /\ DequeueCall
    /\ UNCHANGED <<qPc, lruVars, demoVars, libVars, lifeVars, copyVars>>

QueuePeek ==
    /\ qPc = -1
    /\ PeekCall
    /\ UNCHANGED <<qPc, lruVars, demoVars, libVars, lifeVars, copyVars>>

QueueSize ==
    /\ qPc = -1
    /\ SizeCall
    /\ UNCHANGED <<qPc, lruVars, demoVars, libVars, lifeVars, copyVars>>

\* new Queue(5) and the calls of QueueMain.main before its while loop
DemoQueueCapacity == 5

QueueDemo ==
    << [op |-> "enqueue", item |-> 10],
       [op |-> "enqueue", item |-> 20],
       [op |-> "enqueue", item |-> 30],
       [op |-> "enqueue", item |-> 40],
       [op |-> "enqueue", item |-> 50],
       [op |-> "peek", item |-> 0],
       [op |-> "size", item |-> 0],
       [op |-> "dequeue", item |-> 0],
       [op |-> "peek", item |-> 0] >>

\* the next call of main: the calls of QueueDemo, then dequeue while the queue
\* is not empty, then the end
QueueMain ==
    /\ qPc >= 0
    /\ qPc <= Len(QueueDemo)
    /\ IF qPc < Len(QueueDemo)
       THEN LET c == QueueDemo[qPc + 1]
            IN  /\ CASE c.op = "enqueue" -> EnqueueCall(c.item)
                     [] c.op = "dequeue" -> DequeueCall
                     [] c.op = "peek" -> PeekCall
                     [] c.op = "size" -> SizeCall
                /\ qPc' = qPc + 1
       ELSE IF ~isEmpty
            THEN /\ DequeueCall
                 /\ UNCHANGED qPc
            ELSE /\ qPc' = qPc + 1
                 /\ qCall' = [op |-> "return", item |-> 0]
                 /\ UNCHANGED <<qCapacity, qArr, qFront, qRear, qSize, qRet, qPending>>
    /\ UNCHANGED <<lruVars, demoVars, libVars, lifeVars, copyVars>>

InitQueue ==
    /\ CppNew(0)
    /\ TsNew(0)
    /\ ObsNew
    /\ DemoIdle
    /\ LibIdle
    /\ LifeIdle
    /\ CopyIdle
    /\ \/ \E c \in QueueCapacities : QueueNew(c) /\ qPc = -1
       \/ QueueNew(DemoQueueCapacity) /\ qPc = 0

NextQueue ==
    \/ \E item \in QueueItems : QueueEnqueue(item)
    \/ QueueDequeue
    \/ QueuePeek
    \/ QueueSize
    \/ QueueMain

SpecQueue == InitQueue /\ [][NextQueue]_vars

\* the items stored, from front on, size of them, around the end of the array
QueueContents(arr, front, size, cap) ==
    [i \in 1..size |-> arr[(front + i - 1) % cap]]

\* C30: for capacity >= 1, after every call 0 <= size <= capacity and front
\* and rear are indices of the array; an enqueue on a full queue and a dequeue
\* on an empty queue (which returns -1) change neither front, rear, size nor
\* the items; a dequeue on a queue that is not empty returns the oldest item
\* accepted and not yet returned; the items stored from front on are the
\* accepted items in the order of their acceptance, also around the end of
\* the array.
C30_Step ==
    qCapacity >= 1
    => /\ qCapacity' = qCapacity
       /\ qSize' >= 0 /\ qSize' <= qCapacity
       /\ qFront' \in 0..(qCapacity - 1)
       /\ qRear' \in 0..(qCapacity - 1)
       /\ (qRear' + 1) % qCapacity = (qFront' + qSize') % qCapacity
       /\ QueueContents(qArr', qFront', qSize', qCapacity) = qPending'
       /\ (qCall'.op = "enqueue" /\ qSize = qCapacity)
          => UNCHANGED <<qFront, qRear, qSize, qArr>>
       /\ (qCall'.op = "enqueue" /\ qSize < qCapacity)
          => /\ qSize' = qSize + 1
             /\ qPending' = Append(qPending, qCall'.item)
       /\ (qCall'.op = "dequeue" /\ qSize = 0)
          => /\ qRet' = -1
             /\ UNCHANGED <<qFront, qRear, qSize, qArr>>
       /\ (qCall'.op = "dequeue" /\ qSize > 0)
          => /\ qRet' = Head(qPending)
             /\ qPending' = Tail(qPending)
             /\ qSize' = qSize - 1

C30_BoundedFifo == [][C30_Step]_vars

\* a dequeue returned an item while the stored items wrap around the end of
\* the array
C30_Witness ==
    /\ qPc = -1
    /\ qCall.op = "dequeue"
    /\ qCapacity = MaxQueueCap
    /\ qSize >= 2
    /\ qRear < qFront
    /\ qRet \in QueueItems
    /\ qPending[1] # qRet

====
